---- MODULE Spec2Model ----
(***************************************************************************)
(* Zettelkasten MCP server: the note store (MongoDB collection, or the     *)
(* file store with its rebuildable index), the link-graph operations of    *)
(* the Zettel service and the MCP tools that expose them.                  *)
(***************************************************************************)
EXTENDS Integers, Sequences, FiniteSets, TLC

VARIABLES
    backend,    \* config.storage_backend: "mongo" or "filesystem"
    index,      \* Index Store: the Mongo collection / the index rows, a sequence of documents
    files,      \* File Store: note id -> [text, mtime] for every note file on disk
    lastId,     \* state of the identifier generator
    now,        \* the clock read by datetime.now()
    result,     \* what the last tool call or repository call returned
    pending,    \* id of the note whose file was written by a call that stopped before its index write
    calls       \* the in-flight service calls of the concurrent specification

vars == <<backend, index, files, lastId, now, result, pending, calls>>

----------------------------------------------------------------------------
(* Bounds *)

MaxNotes == 3      \* notes ever created
MaxLinks == 2      \* links in the whole graph
MaxCalls == 2      \* concurrently issued calls
MaxShared == 2     \* notes the concurrently issued calls work on
MaxLimit == 2      \* limit passed to find_central_notes
MaxClock == 1      \* seconds the clock advances

NoId == 0          \* an absent id (None or "")
NoneValue == "None"

----------------------------------------------------------------------------
(* Enumerations (models/schema.py, as used by the tools and the repository) *)

NoteTypeValues == {"fleeting", "literature", "permanent", "structure", "hub"}
LinkTypeValues ==
    {"reference", "extends", "refines", "contradicts", "questions", "supports", "related"}

\* str.lower() on the strings the tools are called with
lower(s) ==
    CASE s = "Supports" -> "supports"
      [] s = "HUB" -> "hub"
      [] s = "AB" -> "ab"
      [] s = "Ab" -> "ab"
      [] OTHER -> s

\* NoteType(value): the enum member of a value; members are written in upper case
NoteType(v) ==
    CASE v = "fleeting" -> "FLEETING"
      [] v = "literature" -> "LITERATURE"
      [] v = "permanent" -> "PERMANENT"
      [] v = "structure" -> "STRUCTURE"
      [] v = "hub" -> "HUB"

NoteTypeValue(m) ==
    CASE m = "FLEETING" -> "fleeting"
      [] m = "LITERATURE" -> "literature"
      [] m = "PERMANENT" -> "permanent"
      [] m = "STRUCTURE" -> "structure"
      [] m = "HUB" -> "hub"

LinkType(v) ==
    CASE v = "reference" -> "REFERENCE"
      [] v = "extends" -> "EXTENDS_"
      [] v = "refines" -> "REFINES"
      [] v = "contradicts" -> "CONTRADICTS"
      [] v = "questions" -> "QUESTIONS"
      [] v = "supports" -> "SUPPORTS"
      [] v = "related" -> "RELATED"

LinkTypeValue(m) ==
    CASE m = "REFERENCE" -> "reference"
      [] m = "EXTENDS_" -> "extends"
      [] m = "REFINES" -> "refines"
      [] m = "CONTRADICTS" -> "contradicts"
      [] m = "QUESTIONS" -> "questions"
      [] m = "SUPPORTS" -> "supports"
      [] m = "RELATED" -> "related"

----------------------------------------------------------------------------
(* Sequence helpers *)

Range(s) == {s[i] : i \in DOMAIN s}

RECURSIVE SeqOfSet(_)
\* the elements of a finite set of integers in ascending order
SeqOfSet(S) ==
    IF S = {} THEN <<>>
    ELSE LET m == CHOOSE x \in S : \A y \in S : x <= y
         IN <<m>> \o SeqOfSet(S \ {m})

\* index of the first element of s satisfying P, 0 when there is none
FirstIndex(s, P(_)) ==
    IF \E i \in DOMAIN s : P(s[i])
    THEN CHOOSE i \in DOMAIN s : P(s[i]) /\ \A j \in 1..(i - 1) : ~P(s[j])
    ELSE 0

RemoveAt(s, i) == SubSeq(s, 1, i - 1) \o SubSeq(s, i + 1, Len(s))

----------------------------------------------------------------------------
(* Notes and documents *)

Tag(name) == [name |-> name]

Link(source_id, target_id, link_type, description, created_at) ==
    [source_id |-> source_id, target_id |-> target_id, link_type |-> link_type,
     description |-> description, created_at |-> created_at]

Note(id, title, content, note_type, tags, links, created_at, updated_at, metadata) ==
    [id |-> id, title |-> title, content |-> content, note_type |-> note_type,
     tags |-> tags, links |-> links, created_at |-> created_at,
     updated_at |-> updated_at, metadata |-> metadata]

EmptyMetadata == <<>>

\* the document written without its tags
note_to_document_untagged(note) ==
    [id |-> note.id,
     title |-> note.title,
     content |-> note.content,
     note_type |-> NoteTypeValue(note.note_type),
     tags |-> <<>>,
     links |-> [i \in DOMAIN note.links |->
                 [source_id |-> note.links[i].source_id,
                  target_id |-> note.links[i].target_id,
                  link_type |-> LinkTypeValue(note.links[i].link_type),
                  description |-> note.links[i].description,
                  created_at |-> note.links[i].created_at]],
     created_at |-> note.created_at,
     updated_at |-> note.updated_at,
     metadata |-> note.metadata]

note_to_document(note) ==
    [id |-> note.id,
     title |-> note.title,
     content |-> note.content,
     note_type |-> NoteTypeValue(note.note_type),
     tags |-> [i \in DOMAIN note.tags |-> note.tags[i].name],
     links |-> [i \in DOMAIN note.links |->
                 [source_id |-> note.links[i].source_id,
                  target_id |-> note.links[i].target_id,
                  link_type |-> LinkTypeValue(note.links[i].link_type),
                  description |-> note.links[i].description,
                  created_at |-> note.links[i].created_at]],
     created_at |-> note.created_at,
     updated_at |-> note.updated_at,
     metadata |-> note.metadata]

\* the note read with the source_id its links were stored with
document_to_note_stored_source(doc) ==
    Note(doc.id, doc.title, doc.content, NoteType(doc.note_type),
         [i \in DOMAIN doc.tags |-> Tag(doc.tags[i])],
         [i \in DOMAIN doc.links |->
             Link(doc.links[i].source_id, doc.links[i].target_id,
                  LinkType(doc.links[i].link_type),
                  doc.links[i].description, doc.links[i].created_at)],
         doc.created_at, doc.updated_at, doc.metadata)

document_to_note(doc) ==
    Note(doc.id, doc.title, doc.content, NoteType(doc.note_type),
         [i \in DOMAIN doc.tags |-> Tag(doc.tags[i])],
         [i \in DOMAIN doc.links |->
             Link(doc.id, doc.links[i].target_id, LinkType(doc.links[i].link_type),
                  doc.links[i].description, doc.links[i].created_at)],
         doc.created_at, doc.updated_at, doc.metadata)

----------------------------------------------------------------------------
(* MongoNoteRepository: the collection is a sequence of documents, in        *)
(* insertion order, with a unique index on "id".                             *)

Ok(store, note) == [ok |-> TRUE, err |-> "", store |-> store, note |-> note]
Err(kind, store, note) == [ok |-> FALSE, err |-> kind, store |-> store, note |-> note]

\* collection.find_one({"id": id}): position of the first matching document, 0 if none
find_one(coll, id) == FirstIndex(coll, LAMBDA d : d.id = id)

Ids(coll) == {coll[i].id : i \in DOMAIN coll}

\* insert_one into a collection that has no unique index on "id"
mongo_create_unindexed(coll, entity, gen, fault) ==
    LET note == IF entity.id = NoId THEN [entity EXCEPT !.id = gen] ELSE entity
    IN IF fault = "index"
       THEN Err("IOError", coll, note)
       ELSE Ok(Append(coll, note_to_document(note)), note)

\* fault = "index": the driver raises PyMongoError (the write does not happen)
mongo_create(coll, entity, gen, fault) ==
    LET note == IF entity.id = NoId THEN [entity EXCEPT !.id = gen] ELSE entity
        document == note_to_document(note)
    IN IF note.id \in Ids(coll) \/ fault = "index"
       THEN Err("IOError", coll, note)
       ELSE Ok(Append(coll, document), note)

\* find_one called without its filter: any document answers
mongo_get_any(coll, id) ==
    LET i == find_one(coll, id)
    IN IF coll = <<>> THEN [found |-> FALSE, note |-> NoneValue]
       ELSE [found |-> TRUE, note |-> document_to_note(coll[IF i = 0 THEN 1 ELSE i])]

mongo_get(coll, id) ==
    LET i == find_one(coll, id)
    IN IF i = 0 THEN [found |-> FALSE, note |-> NoneValue]
       ELSE [found |-> TRUE, note |-> document_to_note(coll[i])]

\* the cursor read one document short
mongo_get_all_short(coll) ==
    [i \in 1..(IF coll = <<>> THEN 0 ELSE Len(coll) - 1) |-> document_to_note(coll[i])]

mongo_get_all(coll) == [i \in DOMAIN coll |-> document_to_note(coll[i])]

\* update_one with "$push" on links instead of "$set" of the whole document
mongo_update_push(coll, entity, t, fault) ==
    LET note == [entity EXCEPT !.updated_at = t]
        document == note_to_document(note)
        i == find_one(coll, note.id)
    IN IF fault = "index"
       THEN Err("PyMongoError", coll, note)
       ELSE IF i = 0
       THEN Err("ValueError", coll, note)
       ELSE Ok([coll EXCEPT ![i] = [document EXCEPT !.links = coll[i].links \o @]], note)

\* update_one with "$addToSet" on tags instead of "$set" of the whole document
mongo_update_add_tags(coll, entity, t, fault) ==
    LET note == [entity EXCEPT !.updated_at = t]
        document == note_to_document(note)
        i == find_one(coll, note.id)
    IN IF fault = "index"
       THEN Err("PyMongoError", coll, note)
       ELSE IF i = 0
       THEN Err("ValueError", coll, note)
       ELSE Ok([coll EXCEPT ![i] = [document EXCEPT !.tags = coll[i].tags \o @]], note)

\* update_one called with upsert=True: an unknown id is inserted
mongo_update_upsert(coll, entity, t, fault) ==
    LET note == [entity EXCEPT !.updated_at = t]
        document == note_to_document(note)
        i == find_one(coll, note.id)
    IN IF fault = "index"
       THEN Err("PyMongoError", coll, note)
       ELSE IF i = 0
       THEN Ok(Append(coll, document), note)
       ELSE Ok([coll EXCEPT ![i] = document], note)

mongo_update(coll, entity, t, fault) ==
    LET note == [entity EXCEPT !.updated_at = t]
        document == note_to_document(note)
        i == find_one(coll, note.id)
    IN IF fault = "index"
       THEN Err("PyMongoError", coll, note)
       ELSE IF i = 0
       THEN Err("ValueError", coll, note)
       ELSE Ok([coll EXCEPT ![i] = document], note)

\* delete_one called without its filter: the first document goes
mongo_delete_first(coll, id, fault) ==
    LET i == find_one(coll, id)
    IN IF fault = "index"
       THEN Err("PyMongoError", coll, NoneValue)
       ELSE IF i = 0
       THEN Err("ValueError", coll, NoneValue)
       ELSE Ok(RemoveAt(coll, 1), NoneValue)

mongo_delete(coll, id, fault) ==
    LET i == find_one(coll, id)
    IN IF fault = "index"
       THEN Err("PyMongoError", coll, NoneValue)
       ELSE IF i = 0
       THEN Err("ValueError", coll, NoneValue)
       ELSE Ok(RemoveAt(coll, i), NoneValue)

\* collection.find({"tags": tag_name})
mongo_find_by_tag(coll, tag_name) ==
    LET hits == SelectSeq(coll, LAMBDA d : tag_name \in Range(d.tags))
    IN [i \in DOMAIN hits |-> document_to_note(hits[i])]

\* collection.find_one({"title": title})
mongo_get_by_title(coll, title) ==
    LET i == FirstIndex(coll, LAMBDA d : d.title = title)
    IN IF i = 0 THEN [found |-> FALSE, note |-> NoneValue]
       ELSE [found |-> TRUE, note |-> document_to_note(coll[i])]

RECURSIVE unwind(_)
\* {"$unwind": "$tags"}: one entry per tag of each document
unwind(coll) ==
    IF coll = <<>> THEN <<>> ELSE Head(coll).tags \o unwind(Tail(coll))

\* the tag names of the model in the order sorted() gives them
SortedNames == <<"alpha", "beta", "manual", "t1", "t2">>

\* the pipeline without its "$group" stage
mongo_get_all_tags_ungrouped(coll) ==
    LET tag_names == unwind(coll)
    IN [i \in DOMAIN tag_names |-> Tag(tag_names[i])]

\* $unwind, $group by tag name, then sorted(tag_names)
mongo_get_all_tags(coll) ==
    LET tag_names == SelectSeq(SortedNames, LAMBDA name : name \in Range(unwind(coll)))
    IN [i \in DOMAIN tag_names |-> Tag(tag_names[i])]

\* rebuild_index written to empty the collection before a re-import that never comes
mongo_rebuild_index_clear(coll) == <<>>

\* rebuild_index written to insert again every document it finds
mongo_rebuild_index_again(coll) == coll \o coll

\* No-op for the Mongo backend
mongo_rebuild_index(coll) == coll

RECURSIVE AddTargets(_, _, _)
\* the loop over note.links of find_linked_notes: results is keyed by note id
AddTargets(coll, links, results) ==
    IF links = <<>> THEN results
    ELSE LET target == mongo_get(coll, Head(links).target_id)
         IN AddTargets(coll, Tail(links),
                IF target.found /\ target.note.id \notin {results[k].id : k \in DOMAIN results}
                THEN Append(results, target.note)
                ELSE results)

RECURSIVE AddSources(_, _, _)
\* the loop over collection.find({"links.target_id": note_id})
AddSources(docs, note_id, results) ==
    IF docs = <<>> THEN results
    ELSE LET doc == Head(docs)
             hit == /\ \E k \in DOMAIN doc.links : doc.links[k].target_id = note_id
                    /\ doc.id # note_id
                    /\ doc.id \notin {results[k].id : k \in DOMAIN results}
         IN AddSources(Tail(docs), note_id,
                IF hit THEN Append(results, document_to_note(doc)) ELSE results)

\* the results kept in a list instead of a dict keyed by note id
mongo_find_linked_notes_list(coll, note_id, direction) ==
    LET note == mongo_get(coll, note_id)
        outgoing == IF direction \in {"outgoing", "both"} /\ note.found
                    THEN AddTargets(coll, note.note.links, <<>>)
                    ELSE <<>>
    IN IF direction \in {"incoming", "both"}
       THEN outgoing \o AddSources(coll, note_id, <<>>)
       ELSE outgoing

\* if direction not in {"outgoing", "incoming", "both"}: raise ValueError
valid_direction(direction) == direction \in {"outgoing", "incoming", "both"}

mongo_find_linked_notes(coll, note_id, direction) ==
    LET note == mongo_get(coll, note_id)
        outgoing == IF direction \in {"outgoing", "both"} /\ note.found
                    THEN AddTargets(coll, note.note.links, <<>>)
                    ELSE <<>>
    IN IF direction \in {"incoming", "both"}
       THEN AddSources(coll, note_id, outgoing)
       ELSE outgoing

----------------------------------------------------------------------------
(* Note Codec: a note file holds the sections of default_note_template        *)
(* (title heading, Metadata block with "Created" and "Tags", Content block,   *)
(* Links block with one line per outgoing link).                              *)

RECURSIVE Dedupe(_)
\* the first occurrences of the elements of a sequence, in order
Dedupe(s) ==
    IF s = <<>> THEN <<>>
    ELSE LET rest == Dedupe(SubSeq(s, 1, Len(s) - 1))
             x == s[Len(s)]
         IN IF x \in Range(rest) THEN rest ELSE Append(rest, x)

LinkLine(link_type, target_id, description) ==
    [wellformed |-> TRUE, link_type |-> link_type, target_id |-> target_id,
     description |-> description]

encode(note) ==
    [title |-> note.title,
     created |-> note.created_at,
     has_tags |-> TRUE,
     tags |-> [i \in DOMAIN note.tags |-> note.tags[i].name],
     content |-> note.content,
     has_links |-> TRUE,
     links |-> [i \in DOMAIN note.links |->
                 LinkLine(LinkTypeValue(note.links[i].link_type),
                          note.links[i].target_id, note.links[i].description)]]

\* a hand-edited file may lack its tags line or its links block; malformed
\* link lines are skipped
TagNames(text) == IF text.has_tags THEN Dedupe(text.tags) ELSE <<>>
LinkLines(text) ==
    IF text.has_links THEN SelectSeq(text.links, LAMBDA l : l.wellformed) ELSE <<>>

\* an unknown link_type is a decode failure
decodable(text) ==
    \A i \in DOMAIN LinkLines(text) : LinkLines(text)[i].link_type \in LinkTypeValues

\* id comes from the file name, updated_at from the file's modification time
decode(text, id, mtime) ==
    Note(id, text.title, text.content, "PERMANENT",
         [i \in DOMAIN TagNames(text) |-> Tag(TagNames(text)[i])],
         [i \in DOMAIN LinkLines(text) |->
             Link(id, LinkLines(text)[i].target_id, LinkType(LinkLines(text)[i].link_type),
                  LinkLines(text)[i].description, text.created)],
         text.created, mtime, EmptyMetadata)

----------------------------------------------------------------------------
(* The text of a note file: a sequence of lines, each line a sequence of      *)
(* tokens, laid out by default_note_template.                                 *)

Blank == <<"">>
Heading(name) == <<"##", name>>

\* str() and int() on the numbers written into a file
str(n) == CASE n = 0 -> "0" [] n = 1 -> "1" [] n = 2 -> "2" [] n = 3 -> "3" [] n = 4 -> "4"
int(t) == CASE t = "0" -> 0 [] t = "1" -> 1 [] t = "2" -> 2 [] t = "3" -> 3 [] t = "4" -> 4

\* content.split("\n") and its inverse
splitlines(content) ==
    CASE content = "body" -> <<(<<"body">>)>>
      [] content = "body\n\n## Links" -> <<(<<"body">>), Blank, Heading("Links")>>

joinlines(lines) ==
    CASE lines = <<(<<"body">>)>> -> "body"
      [] lines = <<(<<"body">>), Blank, Heading("Links")>> -> "body\n\n## Links"
      [] OTHER -> ""

RECURSIVE join(_)
\* ", ".join(names)
join(names) ==
    IF names = <<>> THEN <<>>
    ELSE IF Len(names) = 1 THEN names
    ELSE <<Head(names), ",">> \o join(Tail(names))

\* [t.strip() for t in joined.split(",") if t.strip()]
split(tokens) == SelectSeq(tokens, LAMBDA t : t # "," /\ t # "")

RECURSIVE render_links(_)
\* one line per link, followed by its description line when it has one
render_links(links) ==
    IF links = <<>> THEN <<>>
    ELSE LET l == Head(links)
         IN <<(<<"-", l.link_type, "->", str(l.target_id)>>)>>
            \o (IF l.description = NoneValue THEN <<>> ELSE <<(<<"  ", l.description>>)>>)
            \o render_links(Tail(links))

\* the template without its "- Tags:" line
format_note_untagged(title, created_at, tags, content, links) ==
    <<(<<"#", title>>), Blank, Heading("Metadata"), <<"- Created:", created_at>>,
      Blank, Heading("Content"), Blank>>
    \o content \o <<Blank, Heading("Links")>> \o links

\* default_note_template.format(title=..., created_at=..., tags=..., content=..., links=...)
format_note(title, created_at, tags, content, links) ==
    <<(<<"#", title>>), Blank, Heading("Metadata"), <<"- Created:", created_at>>,
      <<"- Tags:">> \o tags, Blank, Heading("Content"), Blank>>
    \o content \o <<Blank, Heading("Links")>> \o links

encode_text(note) ==
    LET e == encode(note)
    IN format_note(e.title, str(e.created), join(e.tags), splitlines(e.content),
                   render_links(e.links))

\* position of the first line from `from` on that satisfies the test, 0 if none
FirstLine(lines, from, head, name) ==
    LET hits == {i \in from..Len(lines) :
                    Len(lines[i]) >= 1 /\ lines[i][1] = head
                    /\ (name # "" => Len(lines[i]) = 2 /\ lines[i][2] = name)}
    IN IF hits = {} THEN 0 ELSE CHOOSE i \in hits : \A j \in hits : i <= j

LastLine(lines, from, head, name) ==
    LET hits == {i \in from..Len(lines) :
                    Len(lines[i]) = 2 /\ lines[i][1] = head /\ lines[i][2] = name}
    IN IF hits = {} THEN 0 ELSE CHOOSE i \in hits : \A j \in hits : i >= j

\* the lines without one leading and one trailing blank line
unpad(lines) ==
    LET a == IF lines # <<>> /\ Head(lines) = Blank THEN Tail(lines) ELSE lines
    IN IF a # <<>> /\ a[Len(a)] = Blank THEN SubSeq(a, 1, Len(a) - 1) ELSE a

RECURSIVE parse_links(_)
\* the entries of the links block; a line that is no link line is kept as a
\* malformed entry, blank lines are passed over
parse_links(lines) ==
    IF lines = <<>> THEN <<>>
    ELSE LET h == Head(lines)
             rest == Tail(lines)
         IN IF h = Blank THEN parse_links(rest)
            ELSE IF Len(h) = 4 /\ h[1] = "-" /\ h[3] = "->"
            THEN IF rest # <<>> /\ Len(Head(rest)) = 2 /\ Head(rest)[1] = "  "
                 THEN <<LinkLine(h[2], int(h[4]), Head(rest)[2])>> \o parse_links(Tail(rest))
                 ELSE <<LinkLine(h[2], int(h[4]), NoneValue)>> \o parse_links(rest)
            ELSE <<[LinkLine("", NoId, NoneValue) EXCEPT !.wellformed = FALSE]>>
                 \o parse_links(rest)

\* the sections of a note file: the heading is the title, the Content block
\* runs from the first "## Content" to the last "## Links", which opens the
\* Links block
parse(lines) ==
    LET c == FirstLine(lines, 1, "##", "Content")
        stop == IF c = 0 THEN Len(lines) ELSE c - 1
        created == FirstLine(SubSeq(lines, 1, stop), 1, "- Created:", "")
        tags == FirstLine(SubSeq(lines, 1, stop), 1, "- Tags:", "")
        l == IF c = 0 THEN 0 ELSE LastLine(lines, c + 1, "##", "Links")
        body == IF c = 0 THEN <<>>
                ELSE SubSeq(lines, c + 1, IF l = 0 THEN Len(lines) ELSE l - 1)
    IN [title |-> IF lines # <<>> /\ Len(lines[1]) = 2 /\ lines[1][1] = "#"
                  THEN lines[1][2] ELSE "",
        created |-> IF created = 0 THEN 0 ELSE int(lines[created][2]),
        has_tags |-> tags # 0,
        tags |-> IF tags = 0 THEN <<>> ELSE split(Tail(lines[tags])),
        content |-> joinlines(unpad(body)),
        has_links |-> l # 0,
        links |-> IF l = 0 THEN <<>> ELSE parse_links(SubSeq(lines, l + 1, Len(lines)))]

decode_text(lines, id, mtime) == decode(parse(lines), id, mtime)

----------------------------------------------------------------------------
(* File-backed note repository: a store is [index, files]; the file is        *)
(* written before the index row.                                              *)

Store(idx, fls) == [index |-> idx, files |-> fls]

WriteFile(fls, note, t) ==
    [id \in DOMAIN fls \cup {note.id} |->
        IF id = note.id THEN [text |-> encode(note), mtime |-> t] ELSE fls[id]]

RemoveFile(fls, id) == [k \in DOMAIN fls \ {id} |-> fls[k]]

\* fault: "none", "file" (the file write fails), "index" (the call stops or
\* fails after the file write, before the index write)
fs_create(store, entity, gen, t, fault) ==
    LET note == IF entity.id = NoId THEN [entity EXCEPT !.id = gen] ELSE entity
    IN IF note.id \in Ids(store.index) \/ note.id \in DOMAIN store.files
       THEN Err("ConflictError", store, note)
       ELSE IF fault = "file"
       THEN Err("StorageError", store, note)
       ELSE IF fault = "index"
       THEN Err("StorageError", Store(store.index, WriteFile(store.files, note, t)), note)
       ELSE Ok(Store(Append(store.index, note_to_document(note)),
                     WriteFile(store.files, note, t)), note)

fs_get(store, id) == mongo_get(store.index, id)

fs_get_all(store) == mongo_get_all(store.index)

fs_update(store, entity, t, fault) ==
    LET note == [entity EXCEPT !.updated_at = t]
        i == find_one(store.index, note.id)
    IN IF i = 0
       THEN Err("NotFoundError", store, note)
       ELSE IF fault = "file"
       THEN Err("StorageError", store, note)
       ELSE IF fault = "index"
       THEN Err("StorageError", Store(store.index, WriteFile(store.files, note, t)), note)
       ELSE Ok(Store([store.index EXCEPT ![i] = note_to_document(note)],
                     WriteFile(store.files, note, t)), note)

fs_delete(store, id, fault) ==
    LET i == find_one(store.index, id)
    IN IF i = 0
       THEN Err("NotFoundError", store, NoneValue)
       ELSE IF fault = "file" \/ id \notin DOMAIN store.files
       THEN Err("StorageError", store, NoneValue)
       ELSE IF fault = "index"
       THEN Err("StorageError", Store(store.index, RemoveFile(store.files, id)), NoneValue)
       ELSE Ok(Store(RemoveAt(store.index, i), RemoveFile(store.files, id)), NoneValue)

\* the pure function files -> index state
rebuild(fls) ==
    LET ids == SeqOfSet(DOMAIN fls)
    IN [i \in DOMAIN ids |->
           note_to_document(decode(fls[ids[i]].text, ids[i], fls[ids[i]].mtime))]

fs_rebuild_index(store) ==
    IF \A id \in DOMAIN store.files : decodable(store.files[id].text)
    THEN Ok(Store(rebuild(store.files), store.files), NoneValue)
    ELSE Err("StorageError", store, NoneValue)

----------------------------------------------------------------------------
(* The repository contract, whichever backend is configured *)

repo_create(b, store, entity, gen, t, fault) ==
    IF b = "mongo"
    THEN LET r == mongo_create(store.index, entity, gen, fault)
         IN [r EXCEPT !.store = Store(r.store, store.files)]
    ELSE fs_create(store, entity, gen, t, fault)

repo_get(b, store, id) ==
    IF b = "mongo" THEN mongo_get(store.index, id) ELSE fs_get(store, id)

repo_get_all(b, store) ==
    IF b = "mongo" THEN mongo_get_all(store.index) ELSE fs_get_all(store)

repo_update(b, store, entity, t, fault) ==
    IF b = "mongo"
    THEN LET r == mongo_update(store.index, entity, t, fault)
         IN [r EXCEPT !.store = Store(r.store, store.files)]
    ELSE fs_update(store, entity, t, fault)

repo_delete(b, store, id, fault) ==
    IF b = "mongo"
    THEN LET r == mongo_delete(store.index, id, fault)
         IN [r EXCEPT !.store = Store(r.store, store.files)]
    ELSE fs_delete(store, id, fault)

repo_rebuild_index(b, store) ==
    IF b = "mongo"
    THEN Ok(Store(mongo_rebuild_index(store.index), store.files), NoneValue)
    ELSE fs_rebuild_index(store)

repo_find_linked_notes(b, store, note_id, direction) ==
    mongo_find_linked_notes(store.index, note_id, direction)

----------------------------------------------------------------------------
(* Zettel service: note lifecycle and link-graph mutation over the repository *)

Some(v) == [given |-> TRUE, value |-> v]
Nothing == [given |-> FALSE, value |-> NoneValue]

Done(store) == [status |-> "ok", store |-> store]
Failed(kind, store) == [status |-> kind, store |-> store]

\* the timestamp alone, without the counter
generate_id_timestamp(t, last) == t * MaxNotes + 1

\* the id of a note created at second t: the timestamp, then a counter that
\* tells apart the ids given out within one second (the ids of second t are
\* t * MaxNotes + 1 .. (t + 1) * MaxNotes); last is the id given out before
generate_id(t, last) ==
    IF last >= t * MaxNotes + 1 THEN last + 1 ELSE t * MaxNotes + 1

HasLink(note, target_id, link_type) ==
    \E i \in DOMAIN note.links :
        note.links[i].target_id = target_id /\ note.links[i].link_type = link_type

add_link(note, target_id, link_type, description, t) ==
    [note EXCEPT !.links = Append(@, Link(note.id, target_id, link_type, description, t))]

\* the note without its links to target_id, of any link type
without_links_to(note, target_id) ==
    [note EXCEPT !.links = SelectSeq(@, LAMBDA l : l.target_id # target_id)]

create_note(b, store, title, content, note_type, tags, gen, t) ==
    LET note == Note(gen, title, content, note_type,
                     [i \in DOMAIN tags |-> Tag(tags[i])], <<>>, t, t, EmptyMetadata)
        r == repo_create(b, store, note, gen, t, "none")
    IN IF r.ok THEN Done(r.store) ELSE Failed(r.err, r.store)

update_note(b, store, note_id, title, content, note_type, tags, t) ==
    LET old == repo_get(b, store, note_id)
    IN IF ~old.found THEN Failed("NotFoundError", store)
       ELSE LET n1 == IF title.given THEN [old.note EXCEPT !.title = title.value] ELSE old.note
                n2 == IF content.given THEN [n1 EXCEPT !.content = content.value] ELSE n1
                n3 == IF note_type.given THEN [n2 EXCEPT !.note_type = note_type.value] ELSE n2
                n4 == IF tags.given
                      THEN [n3 EXCEPT !.tags = [i \in DOMAIN tags.value |-> Tag(tags.value[i])]]
                      ELSE n3
                r == repo_update(b, store, n4, t, "none")
            IN IF r.ok THEN Done(r.store) ELSE Failed(r.err, r.store)

RECURSIVE remove_links_to(_, _, _, _, _)
\* the cascade of delete_note: every note of `notes` that links to note_id is
\* persisted without those links
remove_links_to(b, store, notes, note_id, t) ==
    IF notes = <<>> THEN Done(store)
    ELSE LET note == Head(notes)
         IN IF \E i \in DOMAIN note.links : note.links[i].target_id = note_id
            THEN LET r == repo_update(b, store, without_links_to(note, note_id), t, "none")
                 IN IF r.ok THEN remove_links_to(b, r.store, Tail(notes), note_id, t)
                    ELSE Failed(r.err, r.store)
            ELSE remove_links_to(b, store, Tail(notes), note_id, t)

delete_note(b, store, note_id, t) ==
    LET cascade == remove_links_to(b, store, repo_get_all(b, store), note_id, t)
    IN IF cascade.status # "ok" THEN cascade
       ELSE LET r == repo_delete(b, cascade.store, note_id, "none")
            IN IF r.ok THEN Done(r.store)
               ELSE Failed(IF r.err = "ValueError" THEN "NotFoundError" ELSE r.err, r.store)

create_link(b, store, source_id, target_id, link_type, description, bidirectional, t) ==
    LET source == repo_get(b, store, source_id)
        target == repo_get(b, store, target_id)
    IN IF ~source.found \/ ~target.found THEN Failed("NotFoundError", store)
       ELSE IF HasLink(source.note, target_id, link_type) THEN Failed("ConflictError", store)
       ELSE LET r1 == repo_update(b, store,
                          add_link(source.note, target_id, link_type, description, t), t, "none")
            IN IF ~r1.ok THEN Failed(r1.err, r1.store)
               ELSE IF bidirectional /\ ~HasLink(target.note, source_id, link_type)
               THEN LET r2 == repo_update(b, r1.store,
                                  add_link(target.note, source_id, link_type, description, t),
                                  t, "none")
                    IN IF r2.ok THEN Done(r2.store) ELSE Failed(r2.err, r2.store)
               ELSE Done(r1.store)

\* create_link while the repository fails: fault names the write that raises,
\* "first" (the source note) or "second" (the target note of a bidirectional
\* link); the error leaves the service as the repository raised it
create_link_under(b, store, source_id, target_id, link_type, description, bidirectional, t, fault) ==
    LET source == repo_get(b, store, source_id)
        target == repo_get(b, store, target_id)
        f1 == IF fault = "first" THEN "index" ELSE "none"
        f2 == IF fault = "second" THEN "index" ELSE "none"
    IN IF ~source.found \/ ~target.found THEN Failed("NotFoundError", store)
       ELSE IF HasLink(source.note, target_id, link_type) THEN Failed("ConflictError", store)
       ELSE LET r1 == repo_update(b, store,
                          add_link(source.note, target_id, link_type, description, t), t, f1)
            IN IF ~r1.ok THEN Failed(r1.err, r1.store)
               ELSE IF bidirectional /\ ~HasLink(target.note, source_id, link_type)
               THEN LET r2 == repo_update(b, r1.store,
                                  add_link(target.note, source_id, link_type, description, t),
                                  t, f2)
                    IN IF r2.ok THEN Done(r2.store) ELSE Failed(r2.err, r2.store)
               ELSE Done(r1.store)

remove_link(b, store, source_id, target_id, bidirectional, t) ==
    LET source == repo_get(b, store, source_id)
        target == repo_get(b, store, target_id)
    IN IF ~source.found THEN Failed("NotFoundError", store)
       ELSE LET src == without_links_to(source.note, target_id)
                r1 == IF src # source.note
                      THEN repo_update(b, store, src, t, "none")
                      ELSE Ok(store, source.note)
            IN IF ~r1.ok THEN Failed(r1.err, r1.store)
               ELSE IF bidirectional /\ target.found
                       /\ without_links_to(target.note, source_id) # target.note
               THEN LET r2 == repo_update(b, r1.store,
                                  without_links_to(target.note, source_id), t, "none")
                    IN IF r2.ok THEN Done(r2.store) ELSE Failed(r2.err, r2.store)
               ELSE Done(r1.store)

get_linked_notes(b, store, note_id, direction) ==
    repo_find_linked_notes(b, store, note_id, direction)

----------------------------------------------------------------------------
(* Search service: read-only analytics over the notes of the repository *)

\* needle in hay, on the strings the notes and queries are written with
contains(hay, needle) ==
    CASE needle = "" -> TRUE
      [] hay = needle -> TRUE
      [] needle = "b" /\ hay \in {"ab", "Ab"} -> TRUE
      [] OTHER -> FALSE

\* MongoNoteRepository.search(**kwargs): the query is built key by key, a
\* later key that writes the same query field replacing what an earlier one
\* wrote; {"$regex": text, "$options": "i"} finds text in the field whatever
\* the case
mongo_search(coll, kwargs) ==
    LET given(k) == k \in DOMAIN kwargs
        on_tags == IF given("tags") THEN "in" ELSE IF given("tag") THEN "eq" ELSE "none"
        target == IF given("linked_from") THEN Some(kwargs.linked_from)
                  ELSE IF given("linked_to") THEN Some(kwargs.linked_to)
                  ELSE Nothing
        hit(d) ==
            /\ given("content") => contains(lower(d.content), lower(kwargs.content))
            /\ given("title") => contains(lower(d.title), lower(kwargs.title))
            /\ given("note_type") => d.note_type = NoteTypeValue(kwargs.note_type)
            /\ on_tags = "eq" => kwargs.tag \in Range(d.tags)
            /\ on_tags = "in" => Range(kwargs.tags) \cap Range(d.tags) # {}
            /\ target.given => \E k \in DOMAIN d.links : d.links[k].target_id = target.value
            /\ given("created_after") => d.created_at >= kwargs.created_after
            /\ given("created_before") => d.created_at <= kwargs.created_before
            /\ given("updated_after") => d.updated_at >= kwargs.updated_after
            /\ given("updated_before") => d.updated_at <= kwargs.updated_before
        docs == SelectSeq(coll, hit)
    IN [i \in DOMAIN docs |-> document_to_note(docs[i])]

\* a note passes the tag filter as soon as it carries one of the requested tags
search_combined_any_tag(b, store, text, tags, note_type) ==
    LET hit(n) ==
            /\ text.given =>
                   \/ contains(lower(n.title), lower(text.value))
                   \/ contains(lower(n.content), lower(text.value))
            /\ tags.given =>
                   \E k \in DOMAIN tags.value : \E j \in DOMAIN n.tags :
                       n.tags[j].name = tags.value[k]
            /\ note_type.given => n.note_type = note_type.value
    IN SelectSeq(repo_get_all(b, store), hit)

\* the notes that pass every criterion that is given
search_combined(b, store, text, tags, note_type) ==
    LET hit(n) ==
            /\ text.given =>
                   \/ contains(lower(n.title), lower(text.value))
                   \/ contains(lower(n.content), lower(text.value))
            /\ tags.given =>
                   \A k \in DOMAIN tags.value : \E j \in DOMAIN n.tags :
                       n.tags[j].name = tags.value[k]
            /\ note_type.given => n.note_type = note_type.value
    IN SelectSeq(repo_get_all(b, store), hit)

\* the range filter written with "<" on the end bound
find_notes_by_date_range_open(b, store, start_date, end_date, use_updated) ==
    LET date(n) == IF use_updated THEN n.updated_at ELSE n.created_at
        hit(n) == /\ start_date.given => start_date.value <= date(n)
                  /\ end_date.given => date(n) < end_date.value
    IN SelectSeq(repo_get_all(b, store), hit)

\* inclusive range filter on created_at, or on updated_at with use_updated
find_notes_by_date_range(b, store, start_date, end_date, use_updated) ==
    LET date(n) == IF use_updated THEN n.updated_at ELSE n.created_at
        hit(n) == /\ start_date.given => start_date.value <= date(n)
                  /\ end_date.given => date(n) <= end_date.value
    IN SelectSeq(repo_get_all(b, store), hit)

RECURSIVE incoming(_, _)
\* the links held by other notes of `notes` whose target is note_id
incoming(notes, note_id) ==
    IF notes = <<>> THEN 0
    ELSE (IF Head(notes).id = note_id THEN 0
          ELSE Len(SelectSeq(Head(notes).links, LAMBDA l : l.target_id = note_id)))
         + incoming(Tail(notes), note_id)

degree(notes, note) == Len(note.links) + incoming(notes, note.id)

\* higher degree first, ties by ascending id
ranks_before(a, b) ==
    a.degree > b.degree \/ (a.degree = b.degree /\ a.note.id < b.note.id)

RECURSIVE insert_ranked(_, _)
insert_ranked(ranked, entry) ==
    IF ranked = <<>> THEN <<entry>>
    ELSE IF ranks_before(entry, Head(ranked)) THEN <<entry>> \o ranked
    ELSE <<Head(ranked)>> \o insert_ranked(Tail(ranked), entry)

RECURSIVE rank(_, _)
rank(entries, ranked) ==
    IF entries = <<>> THEN ranked
    ELSE rank(Tail(entries), insert_ranked(ranked, Head(entries)))

find_central_notes(b, store, limit) ==
    LET notes == repo_get_all(b, store)
        entries == [i \in DOMAIN notes |->
                       [note |-> notes[i], degree |-> degree(notes, notes[i])]]
        ranked == rank(entries, <<>>)
    IN SubSeq(ranked, 1, IF limit < Len(ranked) THEN limit ELSE Len(ranked))

find_orphaned_notes(b, store) ==
    LET notes == repo_get_all(b, store)
    IN SelectSeq(notes, LAMBDA n : degree(notes, n) = 0)

----------------------------------------------------------------------------
(* MCP tools: each call runs to completion and returns a string *)

Cur == Store(index, files)

TotalLinks(coll) ==
    LET RECURSIVE Sum(_)
        Sum(i) == IF i = 0 THEN 0 ELSE Len(coll[i].links) + Sum(i - 1)
    IN Sum(Len(coll))

Returned(tool, status) == [tool |-> tool, status |-> status]

\* str.strip() on the pieces of a comma-separated tag string
strip(s) ==
    CASE s = " t2 " -> "t2"
      [] s = " " -> ""
      [] OTHER -> s

\* [t.strip() for t in tags.split(",") if t.strip()]
tag_list(pieces) ==
    LET stripped == [i \in DOMAIN pieces |-> strip(pieces[i])]
    IN SelectSeq(stripped, LAMBDA x : x # "")

Commit(tool, r) ==
    /\ index' = r.store.index
    /\ files' = r.store.files
    /\ result' = Returned(tool, r.status)

\* the link tools answer "Bidirectional link ..." or "Link ..." on success
Message(r, bidirectional) ==
    IF r.status = "ok" /\ bidirectional THEN [r EXCEPT !.status = "ok_bidirectional"] ELSE r

Reject(tool, status) ==
    /\ result' = Returned(tool, status)
    /\ UNCHANGED <<index, files>>

zk_create_note(title, content, note_type, tags) ==
    /\ generate_id(now, lastId) <= now * MaxNotes + MaxNotes
    /\ IF lower(note_type) \notin NoteTypeValues
       THEN Reject("zk_create_note", "invalid_type") /\ UNCHANGED lastId
       ELSE LET gen == generate_id(now, lastId)
                r == create_note(backend, Cur, title, content, NoteType(lower(note_type)),
                                 IF tags.given THEN tag_list(tags.value) ELSE <<>>, gen, now)
            IN Commit("zk_create_note", r) /\ lastId' = gen
    /\ UNCHANGED <<backend, now, pending, calls>>

\* the tool testing "if tags:" instead of "if tags is not None"
zk_update_note_truthy_tags(note_id, title, content, note_type, tags) ==
    /\ IF ~repo_get(backend, Cur, note_id).found
       THEN Reject("zk_update_note", "not_found")
       ELSE IF note_type.given /\ note_type.value # ""
               /\ lower(note_type.value) \notin NoteTypeValues
       THEN Reject("zk_update_note", "invalid_type")
       ELSE LET nt == IF note_type.given /\ note_type.value # ""
                      THEN Some(NoteType(lower(note_type.value))) ELSE Nothing
                tl == IF tags.given /\ tags.value # <<"">>
                      THEN Some(tag_list(tags.value)) ELSE Nothing
            IN Commit("zk_update_note",
                      update_note(backend, Cur, note_id, title, content, nt, tl, now))
    /\ UNCHANGED <<backend, lastId, now, pending, calls>>

zk_update_note(note_id, title, content, note_type, tags) ==
    /\ IF ~repo_get(backend, Cur, note_id).found
       THEN Reject("zk_update_note", "not_found")
       ELSE IF note_type.given /\ note_type.value # ""
               /\ lower(note_type.value) \notin NoteTypeValues
       THEN Reject("zk_update_note", "invalid_type")
       ELSE LET nt == IF note_type.given /\ note_type.value # ""
                      THEN Some(NoteType(lower(note_type.value))) ELSE Nothing
                tl == IF tags.given THEN Some(tag_list(tags.value)) ELSE Nothing
            IN Commit("zk_update_note",
                      update_note(backend, Cur, note_id, title, content, nt, tl, now))
    /\ UNCHANGED <<backend, lastId, now, pending, calls>>

zk_delete_note(note_id) ==
    /\ IF ~repo_get(backend, Cur, note_id).found
       THEN Reject("zk_delete_note", "not_found")
       ELSE Commit("zk_delete_note", delete_note(backend, Cur, note_id, now))
    /\ UNCHANGED <<backend, lastId, now, pending, calls>>

\* return f"Error: {str(error)}", in each of the three branches
format_error_response(error) == <<"Error:", error>>

\* what a tool returns: always a string
Text(tool, text) == [tool |-> tool, status |-> "returned", text |-> text]

\* the tool calling the service again when the call has raised
zk_create_link_retrying(source_id, target_id, link_type, description, bidirectional, fault) ==
    /\ IF lower(link_type) \notin LinkTypeValues
       THEN /\ result' = Text("zk_create_link", <<"Invalid link type:", link_type>>)
            /\ UNCHANGED <<index, files>>
       ELSE LET r1 == create_link_under(backend, Cur, source_id, target_id,
                                        LinkType(lower(link_type)), description,
                                        bidirectional, now, fault)
                r == IF r1.status = "ok" THEN r1
                     ELSE create_link_under(backend, r1.store, source_id, target_id,
                                            LinkType(lower(link_type)), description,
                                            bidirectional, now, "none")
            IN /\ TotalLinks(r.store.index) <= MaxLinks
               /\ index' = r.store.index
               /\ files' = r.store.files
               /\ result' = Text("zk_create_link",
                                 IF r.status # "ok" THEN format_error_response(r.status)
                                 ELSE IF bidirectional
                                 THEN <<"Bidirectional link created between", source_id,
                                        target_id>>
                                 ELSE <<"Link created from", source_id, target_id>>)
    /\ UNCHANGED <<backend, lastId, now, pending, calls>>

\* zk_create_link while the repository fails (fault as in create_link_under):
\* try: ... except Exception as e: return self.format_error_response(e)
zk_create_link_under(source_id, target_id, link_type, description, bidirectional, fault) ==
    /\ IF lower(link_type) \notin LinkTypeValues
       THEN /\ result' = Text("zk_create_link", <<"Invalid link type:", link_type>>)
            /\ UNCHANGED <<index, files>>
       ELSE LET r == create_link_under(backend, Cur, source_id, target_id,
                                       LinkType(lower(link_type)), description,
                                       bidirectional, now, fault)
            IN /\ TotalLinks(r.store.index) <= MaxLinks
               /\ index' = r.store.index
               /\ files' = r.store.files
               /\ result' = Text("zk_create_link",
                                 IF r.status # "ok" THEN format_error_response(r.status)
                                 ELSE IF bidirectional
                                 THEN <<"Bidirectional link created between", source_id,
                                        target_id>>
                                 ELSE <<"Link created from", source_id, target_id>>)
    /\ UNCHANGED <<backend, lastId, now, pending, calls>>

\* the tool forgetting to pass bidirectional on to the service
zk_create_link_oneway(source_id, target_id, link_type, description, bidirectional) ==
    /\ IF lower(link_type) \notin LinkTypeValues
       THEN Reject("zk_create_link", "invalid_type")
       ELSE LET r == create_link(backend, Cur, source_id, target_id,
                                 LinkType(lower(link_type)), description, FALSE, now)
            IN /\ TotalLinks(r.store.index) <= MaxLinks
               /\ Commit("zk_create_link", Message(r, bidirectional))
    /\ UNCHANGED <<backend, lastId, now, pending, calls>>

zk_create_link(source_id, target_id, link_type, description, bidirectional) ==
    /\ IF lower(link_type) \notin LinkTypeValues
       THEN Reject("zk_create_link", "invalid_type")
       ELSE LET r == create_link(backend, Cur, source_id, target_id,
                                 LinkType(lower(link_type)), description, bidirectional, now)
            IN /\ TotalLinks(r.store.index) <= MaxLinks
               /\ Commit("zk_create_link", Message(r, bidirectional))
    /\ UNCHANGED <<backend, lastId, now, pending, calls>>

\* the tool forgetting to pass bidirectional on to the service
zk_remove_link_oneway(source_id, target_id, bidirectional) ==
    /\ Commit("zk_remove_link",
              Message(remove_link(backend, Cur, source_id, target_id, FALSE, now),
                      bidirectional))
    /\ UNCHANGED <<backend, lastId, now, pending, calls>>

\* the tool answering "not found" when the source holds no link to the target
zk_remove_link_strict(source_id, target_id, bidirectional) ==
    /\ IF \A i \in DOMAIN index :
             index[i].id = source_id =>
                 \A k \in DOMAIN index[i].links : index[i].links[k].target_id # target_id
       THEN Reject("zk_remove_link", "NotFoundError")
       ELSE Commit("zk_remove_link",
                   Message(remove_link(backend, Cur, source_id, target_id, bidirectional, now),
                           bidirectional))
    /\ UNCHANGED <<backend, lastId, now, pending, calls>>

zk_remove_link(source_id, target_id, bidirectional) ==
    /\ Commit("zk_remove_link",
              Message(remove_link(backend, Cur, source_id, target_id, bidirectional, now),
                      bidirectional))
    /\ UNCHANGED <<backend, lastId, now, pending, calls>>

\* the tool answering without calling rebuild_index
zk_rebuild_index_skipped ==
    /\ LET note_count_before == Len(repo_get_all(backend, Cur))
           note_count_after == Len(repo_get_all(backend, Cur))
       IN result' = [tool |-> "zk_rebuild_index", status |-> "ok",
                     processed |-> note_count_after,
                     change |-> note_count_after - note_count_before]
    /\ UNCHANGED <<backend, index, files, lastId, now, pending, calls>>

zk_rebuild_index ==
    /\ LET note_count_before == Len(repo_get_all(backend, Cur))
           r == repo_rebuild_index(backend, Cur)
           note_count_after == Len(repo_get_all(backend, r.store))
       IN /\ index' = r.store.index
          /\ files' = r.store.files
          /\ result' = IF r.ok
                       THEN [tool |-> "zk_rebuild_index", status |-> "ok",
                             processed |-> note_count_after,
                             change |-> note_count_after - note_count_before]
                       ELSE Returned("zk_rebuild_index", r.err)
    /\ UNCHANGED <<backend, lastId, now, pending, calls>>

\* the tool ignoring its limit argument (the default of 10 is used)
zk_find_central_notes_nolimit(limit) ==
    /\ LET central_notes == find_central_notes(backend, Cur, 10)
       IN result' = IF central_notes = <<>>
                    THEN Returned("zk_find_central_notes", "none_found")
                    ELSE [tool |-> "zk_find_central_notes", status |-> "ok", limit |-> limit,
                          listed |-> [i \in DOMAIN central_notes |->
                                        <<central_notes[i].note.id, central_notes[i].degree>>]]
    /\ UNCHANGED <<backend, index, files, lastId, now, pending, calls>>

\* the tool noting on the note that it was read
zk_get_note_touch(identifier) ==
    /\ LET by_id == FirstIndex(index, LAMBDA d : str(d.id) = identifier)
           note == IF by_id # 0 THEN [found |-> TRUE, note |-> document_to_note(index[by_id])]
                   ELSE mongo_get_by_title(index, identifier)
       IN IF ~note.found
          THEN Reject("zk_get_note", "not_found")
          ELSE Commit("zk_get_note",
                      update_note(backend, Cur, note.note.id, Nothing, Nothing, Nothing,
                                  Some(<<"read">>), now))
    /\ UNCHANGED <<backend, lastId, now, pending, calls>>

\* identifier: the id of a note as a string, or its exact title
zk_get_note(identifier) ==
    /\ LET by_id == FirstIndex(index, LAMBDA d : str(d.id) = identifier)
           note == IF by_id # 0 THEN [found |-> TRUE, note |-> document_to_note(index[by_id])]
                   ELSE mongo_get_by_title(index, identifier)
       IN result' = IF ~note.found
                    THEN [tool |-> "zk_get_note", status |-> "not_found",
                          identifier |-> identifier, note |-> NoneValue]
                    ELSE [tool |-> "zk_get_note", status |-> "ok",
                          identifier |-> identifier, note |-> note.note]
    /\ UNCHANGED <<backend, index, files, lastId, now, pending, calls>>

\* start_date, end_date: days, read on a clock that counts days, so that
\* T00:00:00 and T23:59:59 of a day are its first and last instant; a date
\* before day 0 stands for a string that datetime.fromisoformat rejects with
\* ValueError, which the tool answers with "Error parsing date"
zk_list_notes_by_date(start_date, end_date, use_updated, limit) ==
    /\ LET malformed(d) == d.given /\ d.value < 0
           notes == find_notes_by_date_range(backend, Cur, start_date, end_date, use_updated)
           shown == SubSeq(notes, 1, IF limit < Len(notes) THEN limit ELSE Len(notes))
       IN result' = [tool |-> "zk_list_notes_by_date",
                     status |-> IF malformed(start_date) \/ malformed(end_date)
                                THEN "date_error"
                                ELSE IF shown = <<>> THEN "none_found" ELSE "ok",
                     start_date |-> start_date, end_date |-> end_date,
                     use_updated |-> use_updated, limit |-> limit,
                     listed |-> IF malformed(start_date) \/ malformed(end_date) THEN <<>>
                                ELSE [i \in DOMAIN shown |-> shown[i].id]]
    /\ UNCHANGED <<backend, index, files, lastId, now, pending, calls>>

\* query: Text to search for; tags: the pieces of a comma-separated string
zk_search_notes(query, tags, note_type, limit) ==
    /\ LET args == [tool |-> "zk_search_notes", query |-> query, tags |-> tags,
                    note_type |-> note_type, limit |-> limit]
           asked == [f \in {"status", "listed"} \cup DOMAIN args |->
                       IF f \in DOMAIN args THEN args[f] ELSE <<>>]
       IN IF note_type.given /\ note_type.value # ""
             /\ lower(note_type.value) \notin NoteTypeValues
          THEN result' = [asked EXCEPT !.status = "invalid_type"]
          ELSE LET tl == IF tags.given /\ tags.value # <<"">>
                         THEN Some(tag_list(tags.value)) ELSE Nothing
                   nt == IF note_type.given /\ note_type.value # ""
                         THEN Some(NoteType(lower(note_type.value))) ELSE Nothing
                   found == search_combined(backend, Cur, query, tl, nt)
                   results == SubSeq(found, 1, IF limit < Len(found) THEN limit ELSE Len(found))
               IN result' = IF results = <<>>
                            THEN [asked EXCEPT !.status = "none_found"]
                            ELSE [asked EXCEPT !.status = "ok",
                                               !.listed = [i \in DOMAIN results |->
                                                             results[i].id]]
    /\ UNCHANGED <<backend, index, files, lastId, now, pending, calls>>

\* the answer lists, in order, each returned note with its connection count
zk_find_central_notes(limit) ==
    /\ LET central_notes == find_central_notes(backend, Cur, limit)
       IN result' = IF central_notes = <<>>
                    THEN Returned("zk_find_central_notes", "none_found")
                    ELSE [tool |-> "zk_find_central_notes", status |-> "ok", limit |-> limit,
                          listed |-> [i \in DOMAIN central_notes |->
                                        <<central_notes[i].note.id, central_notes[i].degree>>]]
    /\ UNCHANGED <<backend, index, files, lastId, now, pending, calls>>

zk_find_orphaned_notes ==
    /\ LET orphans == find_orphaned_notes(backend, Cur)
       IN result' = IF orphans = <<>>
                    THEN Returned("zk_find_orphaned_notes", "none_found")
                    ELSE [tool |-> "zk_find_orphaned_notes", status |-> "ok",
                          listed |-> [i \in DOMAIN orphans |-> orphans[i].id]]
    /\ UNCHANGED <<backend, index, files, lastId, now, pending, calls>>

----------------------------------------------------------------------------
(* Serialized tool calls on the link graph *)

NoteIds == 1..MaxNotes
LinkTypeInputs == {"reference", "Supports", "bogus"}

Init ==
    /\ backend = "mongo"
    /\ index = <<>>
    /\ files = <<>>
    /\ lastId = 0
    /\ now = 0
    /\ result = Returned("none", "ok")
    /\ pending = NoId
    /\ calls = <<>>

Next ==
    \/ \E nt \in {"permanent", "bogus"} : zk_create_note("alpha", "body", nt, Nothing)
    \/ \E id \in NoteIds : zk_update_note(id, Some("bravo"), Nothing, Nothing, Nothing)
    \/ \E id \in NoteIds : zk_delete_note(id)
    \/ \E s, t \in NoteIds, ty \in LinkTypeInputs, bi \in BOOLEAN :
           zk_create_link(s, t, ty, NoneValue, bi)
    \/ \E s, t \in NoteIds, bi \in BOOLEAN : zk_remove_link(s, t, bi)

Spec == Init /\ [][Next]_vars

----------------------------------------------------------------------------
(* Link graph of the stored notes *)

\* the (source_id, target_id, link_type) triples of a document, in order
Triples(doc) ==
    [i \in DOMAIN doc.links |->
        <<doc.links[i].source_id, doc.links[i].target_id, doc.links[i].link_type>>]

\* how many links of the stored note `id` go to `target` with link type value `ty`
CountLinks(coll, id, target, ty) ==
    Cardinality({<<i, k>> \in (DOMAIN coll) \X (1..MaxLinks + 1) :
                    /\ coll[i].id = id
                    /\ k \in DOMAIN coll[i].links
                    /\ coll[i].links[k].target_id = target
                    /\ coll[i].links[k].link_type = ty})

LinksTo(coll, target) ==
    {<<i, k>> \in (DOMAIN coll) \X (1..MaxLinks + 1) :
        k \in DOMAIN coll[i].links /\ coll[i].links[k].target_id = target}

ValidLinkInputs == {ty \in LinkTypeInputs : lower(ty) \in LinkTypeValues}

----------------------------------------------------------------------------
StoredLinks(coll, id) ==
    LET i == find_one(coll, id) IN IF i = 0 THEN <<>> ELSE coll[i].links

\* the links of the stored note `id` that do not go to `target`
LinksElsewhere(coll, id, target) ==
    SelectSeq(StoredLinks(coll, id), LAMBDA l : l.target_id # target)

LinkLists(coll) == [i \in DOMAIN coll |-> <<coll[i].id, coll[i].links>>]

NoDuplicateLinks ==
    \A i \in DOMAIN index : \A j, k \in DOMAIN index[i].links :
        j # k => Triples(index[i])[j] # Triples(index[i])[k]

Succeeded == result.status \in {"ok", "ok_bidirectional"}

----------------------------------------------------------------------------
\* C1: no stored note ever holds two links with the same (source_id, target_id,
\* link_type), and a create_link call whose triple is already stored returns a
\* conflict error and leaves every note's link list as it was.
C1_LinkUniqueness ==
    /\ NoDuplicateLinks
    /\ [][/\ NoDuplicateLinks'
          /\ result'.tool = "zk_create_link" =>
               \A s, t \in NoteIds, ty \in ValidLinkInputs, bi \in BOOLEAN :
                   (/\ CountLinks(index, s, t, lower(ty)) > 0
                    /\ zk_create_link(s, t, ty, NoneValue, bi))
                       => /\ result'.status = "ConflictError"
                          /\ LinkLists(index') = LinkLists(index)]_vars

\* a conflict was reported while the graph holds links
C1_Witness ==
    /\ result = Returned("zk_create_link", "ConflictError")
    /\ TotalLinks(index) = MaxLinks

\* C2: after a successful delete_note(x) no stored note holds a link whose
\* target_id is x, whatever its link type, and get(x) finds nothing.
C2_CascadingDelete ==
    [][(result'.tool = "zk_delete_note" /\ result'.status = "ok") =>
          \A x \in NoteIds :
              zk_delete_note(x)
                  => /\ LinksTo(index', x) = {}
                     /\ ~repo_get(backend', Store(index', files'), x).found]_vars

\* a note was deleted and the notes that remain still hold links
C2_Witness ==
    /\ result = Returned("zk_delete_note", "ok")
    /\ Len(index) = MaxNotes - 1
    /\ TotalLinks(index) > 0

\* C8: create_link with a source_id or target_id that is not stored returns a
\* not-found error and changes neither the index nor the files.
C8_CreateLinkNotFound ==
    [][result'.tool = "zk_create_link" =>
          \A s, t \in NoteIds, ty \in ValidLinkInputs, bi \in BOOLEAN :
              (/\ (s \notin Ids(index) \/ t \notin Ids(index))
               /\ zk_create_link(s, t, ty, NoneValue, bi))
                  => /\ result'.status = "NotFoundError"
                     /\ index' = index
                     /\ files' = files]_vars

C8_Witness ==
    /\ result = Returned("zk_create_link", "NotFoundError")
    /\ index # <<>>
    /\ TotalLinks(index) > 0

\* C9: after a successful bidirectional create_link(s, t, ty) the source holds
\* exactly one link (s, t, ty) and the target exactly one link (t, s, ty), also
\* when (t, s, ty) was stored before the call and when s = t.
C9_BidirectionalOnce ==
    [][(result'.tool = "zk_create_link" /\ result'.status = "ok_bidirectional") =>
          \A s, t \in NoteIds, ty \in ValidLinkInputs :
              zk_create_link(s, t, ty, NoneValue, TRUE)
                  => /\ CountLinks(index', s, t, lower(ty)) = 1
                     /\ CountLinks(index', t, s, lower(ty)) = 1]_vars

\* a bidirectional link between two different notes is stored
C9_Witness ==
    /\ result = Returned("zk_create_link", "ok_bidirectional")
    /\ \E s, t \in Ids(index), ty \in LinkTypeValues :
           s # t /\ CountLinks(index, s, t, ty) = 1 /\ CountLinks(index, t, s, ty) = 1

\* C10: after remove_link(s, t, bidirectional) the source holds no link to t,
\* with bidirectional the target holds no link to s, the links of s and t to
\* other notes are as before, and when every link touching s was a link between
\* s and t, get_linked_notes(s, "both") is empty after a bidirectional removal.
C10_RemoveLink ==
    [][(result'.tool = "zk_remove_link" /\ result'.status \in {"ok", "ok_bidirectional"}) =>
          \A s, t \in NoteIds, bi \in BOOLEAN :
              zk_remove_link(s, t, bi)
                  => /\ \A ty \in LinkTypeValues : CountLinks(index', s, t, ty) = 0
                     /\ bi => \A ty \in LinkTypeValues : CountLinks(index', t, s, ty) = 0
                     /\ LinksElsewhere(index', s, t) = LinksElsewhere(index, s, t)
                     /\ LinksElsewhere(index', t, s) = LinksElsewhere(index, t, s)
                     /\ (~bi /\ s # t) => StoredLinks(index', t) = StoredLinks(index, t)
                     /\ \A o \in NoteIds \ {s, t} : StoredLinks(index', o) = StoredLinks(index, o)
                     /\ (/\ bi
                         /\ LinksElsewhere(index, s, t) = <<>>
                         /\ \A o \in NoteIds \ {s, t}, ty \in LinkTypeValues :
                                CountLinks(index, o, s, ty) = 0)
                            => get_linked_notes(backend', Store(index', files'), s, "both") = <<>>]_vars

\* a removal was answered and a link to another note is still stored
C10_Witness ==
    /\ result.tool = "zk_remove_link"
    /\ Succeeded
    /\ TotalLinks(index) > 0

NoLink(coll, s, t) == \A ty \in LinkTypeValues : CountLinks(coll, s, t, ty) = 0

\* C11 (as claimed): remove_link(s, t, bidirectional) on stored notes with no
\* link from s to t succeeds and changes no note.
C11_Original ==
    [][result'.tool = "zk_remove_link" =>
          \A s, t \in Ids(index), bi \in BOOLEAN :
              (NoLink(index, s, t) /\ zk_remove_link(s, t, bi))
                  => result'.status \in {"ok", "ok_bidirectional"} /\ index' = index]_vars

\* C11 (amended): remove_link(s, t, bidirectional) on stored notes with no
\* link from s to t, and for a bidirectional call none from t to s, succeeds
\* and changes no note; a second identical call right after a successful one
\* succeeds and leaves the link graph as the first call left it.
C11_RemoveIdempotent ==
    [][result'.tool = "zk_remove_link" =>
          \A s, t \in NoteIds, bi \in BOOLEAN :
              /\ (/\ s \in Ids(index) /\ t \in Ids(index)
                  /\ NoLink(index, s, t)
                  /\ bi => NoLink(index, t, s)
                  /\ zk_remove_link(s, t, bi))
                     => result'.status \in {"ok", "ok_bidirectional"} /\ index' = index
              /\ (/\ result'.status \in {"ok", "ok_bidirectional"}
                  /\ zk_remove_link(s, t, bi))
                     => LET again == remove_link(backend', Store(index', files'), s, t, bi, now')
                        IN again.status = "ok" /\ again.store.index = index']_vars

\* a bidirectional removal was answered with two stored notes and no link left
C11_Witness ==
    /\ result = Returned("zk_remove_link", "ok_bidirectional")
    /\ Len(index) = 2
    /\ TotalLinks(index) = 0

----------------------------------------------------------------------------
(* Repository calls, hand edits of note files and rebuild *)

MaxFiles == 2      \* note ids used by direct repository calls

FileIds == 1..MaxFiles
Faults == {"none", "file", "index"}
TagInputs == {<<>>, <<"t1", "t1">>}

\* the link lists a caller passes for note id: none, or one link to note 1
LinkInputs(id) == {<<>>, <<Link(id, 1, "REFERENCE", "d", now)>>}

\* the note id whose file a call wrote before it stopped short of the index write
Stopped(r, fault) ==
    IF backend = "filesystem" /\ fault = "index" /\ r.err = "StorageError"
    THEN r.note.id ELSE pending

Answer(tool, r) ==
    /\ index' = r.store.index
    /\ files' = r.store.files
    /\ result' = Returned(tool, IF r.ok THEN "ok" ELSE r.err)

repository_create(id, title, note_type, tags, links, fault) ==
    /\ backend = "mongo" => fault # "file"
    /\ id = NoId => generate_id(now, lastId) <= now * MaxNotes + MaxFiles
    /\ LET entity == Note(id, title, "body", note_type, [i \in DOMAIN tags |-> Tag(tags[i])],
                          links, now, now, EmptyMetadata)
           r == repo_create(backend, Cur, entity, generate_id(now, lastId), now, fault)
       IN /\ Answer("create", r)
          /\ pending' = Stopped(r, fault)
          /\ lastId' = IF id = NoId THEN generate_id(now, lastId) ELSE lastId
    /\ UNCHANGED <<backend, now, calls>>

repository_update(id, title, tags, links, fault) ==
    /\ backend = "mongo" => fault # "file"
    /\ LET old == repo_get(backend, Cur, id)
           base == IF old.found THEN old.note
                   ELSE Note(id, title, "body", "PERMANENT", <<>>, <<>>, now, now, EmptyMetadata)
           entity == [base EXCEPT !.title = title,
                                  !.tags = [i \in DOMAIN tags |-> Tag(tags[i])],
                                  !.links = links]
           r == repo_update(backend, Cur, entity, now, fault)
       IN /\ Answer("update", r)
          /\ pending' = Stopped(r, fault)
    /\ UNCHANGED <<backend, lastId, now, calls>>

repository_delete(id, fault) ==
    /\ backend = "mongo" => fault # "file"
    /\ Answer("delete", repo_delete(backend, Cur, id, fault))
    /\ UNCHANGED <<backend, lastId, now, pending, calls>>

Edited(id, text) ==
    /\ files' = [files EXCEPT ![id] = [text |-> text, mtime |-> now]]
    /\ UNCHANGED <<backend, index, lastId, now, result, pending, calls>>

\* a tag typed into the Tags line of a note file
ManualAddTag(id) ==
    /\ id \in DOMAIN files
    /\ "manual" \notin Range(files[id].text.tags)
    /\ Edited(id, [files[id].text EXCEPT !.has_tags = TRUE, !.tags = Append(@, "manual")])

\* the Tags line and the Links block deleted from a note file
ManualStrip(id) ==
    /\ id \in DOMAIN files
    /\ files[id].text.has_tags \/ files[id].text.has_links
    /\ Edited(id, [files[id].text EXCEPT !.has_tags = FALSE, !.tags = <<>>,
                                         !.has_links = FALSE, !.links = <<>>])

\* a link line garbled, or given a link type that does not exist
ManualBreakLink(id, unknown) ==
    /\ id \in DOMAIN files
    /\ files[id].text.links # <<>>
    /\ files[id].text.links[1].wellformed
    /\ files[id].text.links[1].link_type \in LinkTypeValues
    /\ Edited(id, [files[id].text EXCEPT !.links[1] =
                     IF unknown THEN [@ EXCEPT !.link_type = "bogus"]
                     ELSE [@ EXCEPT !.wellformed = FALSE]])

ManualRemoveFile(id) ==
    /\ id \in DOMAIN files
    /\ files' = RemoveFile(files, id)
    /\ UNCHANGED <<backend, index, lastId, now, result, pending, calls>>

\* the server started on the notes directory with a fresh, empty index
FreshIndex ==
    /\ backend = "filesystem"
    /\ index # <<>>
    /\ index' = <<>>
    /\ UNCHANGED <<backend, files, lastId, now, result, pending, calls>>

InitSync ==
    /\ backend \in {"mongo", "filesystem"}
    /\ index = <<>>
    /\ files = <<>>
    /\ lastId = 0
    /\ now = 0
    /\ result = Returned("none", "ok")
    /\ pending = NoId
    /\ calls = <<>>

NextRepo ==
    \/ \E id \in FileIds, tg \in TagInputs :
           \E li \in LinkInputs(id) : repository_create(id, "alpha", "HUB", tg, li, "none")
    \/ \E id \in FileIds, tg \in TagInputs :
           \E li \in LinkInputs(id) : repository_update(id, "bravo", tg, li, "none")
    \/ \E id \in FileIds : repository_delete(id, "none")
    \/ zk_rebuild_index

SpecRepo == InitSync /\ [][NextRepo]_vars

\* clean repository calls, hand edits of the note files, and rebuilds
NextSync ==
    \/ \E id \in FileIds :
           \E li \in LinkInputs(id) :
               repository_create(id, "alpha", "PERMANENT", <<"t1">>, li, "none")
    \/ \E id \in FileIds :
           \E li \in LinkInputs(id) : repository_update(id, "alpha", <<"t1">>, li, "none")
    \/ \E id \in FileIds : repository_delete(id, "none")
    \/ zk_rebuild_index
    \/ \E id \in FileIds : ManualAddTag(id)
    \/ \E id \in FileIds : ManualStrip(id)
    \/ \E id \in FileIds, unknown \in BOOLEAN : ManualBreakLink(id, unknown)
    \/ \E id \in FileIds : ManualRemoveFile(id)
    \/ FreshIndex

SpecSync == InitSync /\ [][NextSync]_vars

\* repository calls that fail or stop part-way, and rebuilds
NextFault ==
    \/ \E id \in FileIds, f \in Faults :
           \E li \in LinkInputs(id) :
               repository_create(id, "alpha", "HUB", <<"t1", "t1">>, li, f)
    \/ \E id \in FileIds, f \in Faults :
           \E li \in LinkInputs(id) :
               repository_update(id, "bravo", <<"t1", "t1">>, li, f)
    \/ \E id \in FileIds, f \in Faults : repository_delete(id, f)
    \/ zk_rebuild_index

SpecFault == InitSync /\ [][NextFault]_vars

----------------------------------------------------------------------------
(* Files and index *)

IndexNote(coll, id) == mongo_get(coll, id).note

FileNote(fls, id) == decode(fls[id].text, id, fls[id].mtime)

TagSet(note) == {note.tags[i].name : i \in DOMAIN note.tags}

LinkTriples(note) ==
    {<<note.links[i].target_id, note.links[i].link_type, note.links[i].description>> :
        i \in DOMAIN note.links}

\* two notes agree in everything a note file carries
SameNote(a, b) ==
    /\ a.id = b.id
    /\ a.title = b.title
    /\ a.content = b.content
    /\ a.created_at = b.created_at
    /\ TagSet(a) = TagSet(b)
    /\ LinkTriples(a) = LinkTriples(b)

UniqueIds(coll) == \A i, j \in DOMAIN coll : coll[i].id = coll[j].id => i = j

\* the index holds exactly the decodings of the files
IndexIsFiles(coll, fls) ==
    /\ Ids(coll) = DOMAIN fls
    /\ UniqueIds(coll)
    /\ \A id \in DOMAIN fls : IndexNote(coll, id) = FileNote(fls, id)

RebuildDone == result'.tool = "zk_rebuild_index" /\ result'.status = "ok" /\ zk_rebuild_index

C4_RebuildIdempotent ==
    [][(result'.tool = "zk_rebuild_index" /\ zk_rebuild_index) =>
         LET first == Store(index', files')
             second == repo_rebuild_index(backend', first)
         IN /\ second.store = first
            /\ second.ok <=> result'.status = "ok"]_vars

\* a rebuild was answered with two notes in the index
C4_Witness ==
    /\ result.tool = "zk_rebuild_index"
    /\ result.status = "ok"
    /\ result.processed = 2
    /\ Len(index) = 2

\* every id is in the index iff its file exists, and the two agree
Derivable(coll, fls) ==
    /\ Ids(coll) = DOMAIN fls
    /\ \A id \in DOMAIN fls : SameNote(IndexNote(coll, id), FileNote(fls, id))

Written(fls, id, title) ==
    /\ id \in DOMAIN fls
    /\ fls[id].text.title = title
    /\ fls[id].text.tags = <<"t1", "t1">>

\* the file write of a create or update of note id is reached
WritesFile(tool, id) ==
    IF tool = "create" THEN id \notin Ids(index) /\ id \notin DOMAIN files
    ELSE id \in Ids(index)

\* C6: in repository create and update the file is written before the index:
\* when the file write fails the call reports a storage error and the index is
\* unchanged; when the call stops after the file write and before the index
\* write, a later rebuild_index makes the index contain the note as written in
\* the file.
C6_FileBeforeIndex ==
    [][/\ \A id \in FileIds, f \in {"file", "index"} :
            \A li \in LinkInputs(id) :
               /\ (/\ backend = "filesystem"
                   /\ result'.tool = "create"
                   /\ WritesFile("create", id)
                   /\ repository_create(id, "alpha", "HUB", <<"t1", "t1">>, li, f))
                      => /\ result'.status = "StorageError"
                         /\ index' = index
                         /\ IF f = "file" THEN files' = files /\ pending' = pending
                            ELSE Written(files', id, "alpha") /\ pending' = id
               /\ (/\ backend = "filesystem"
                   /\ result'.tool = "update"
                   /\ WritesFile("update", id)
                   /\ repository_update(id, "bravo", <<"t1", "t1">>, li, f))
                      => /\ result'.status = "StorageError"
                         /\ index' = index
                         /\ IF f = "file" THEN files' = files /\ pending' = pending
                            ELSE Written(files', id, "bravo") /\ pending' = id
       /\ (pending \in DOMAIN files /\ result'.tool = "zk_rebuild_index" /\ zk_rebuild_index)
              => /\ result'.status = "ok"
                 /\ pending \in Ids(index')
                 /\ IndexNote(index', pending) = FileNote(files, pending)
                 /\ TagSet(IndexNote(index', pending)) = {"t1"}]_vars

\* a rebuild brought into the index a note whose create stopped before its index write
C6_Witness ==
    /\ backend = "filesystem"
    /\ pending # NoId
    /\ result.tool = "zk_rebuild_index"
    /\ result.status = "ok"
    /\ pending \in Ids(index)
    /\ IndexNote(index, pending).title = "alpha"
    /\ IndexNote(index, pending).links # <<>>

----------------------------------------------------------------------------
(* Concurrently issued service calls. Nothing in the service or in the       *)
(* repository locks a note: a call reads the notes it works on, and later    *)
(* writes back what it derived from that reading.                            *)

SharedIds == 1..MaxShared
Ops == {"create_link", "remove_link", "update_note", "delete_note"}

Call(op, a, b) ==
    [op |-> op, a |-> a, b |-> b, pc |-> "read", seen |-> <<>>, status |-> ""]

\* the call as it would run alone on the collection it read
Alone(c, coll) ==
    LET store == Store(coll, files)
    IN CASE c.op = "create_link" ->
              create_link(backend, store, c.a, c.b, "REFERENCE", NoneValue, FALSE, now)
         [] c.op = "remove_link" -> remove_link(backend, store, c.a, c.b, FALSE, now)
         [] c.op = "update_note" ->
              update_note(backend, store, c.a, Some("bravo"), Nothing, Nothing, Nothing, now)
         [] c.op = "delete_note" -> delete_note(backend, store, c.a, now)

RECURSIVE ApplyUpdates(_, _, _)
\* repository.update of every note the call changed, in the order it read them
ApplyUpdates(coll, before, after) ==
    IF before = <<>> THEN Ok(coll, NoneValue)
    ELSE LET old == Head(before)
             i == find_one(after, old.id)
         IN IF i = 0 \/ after[i] = old
            THEN ApplyUpdates(coll, Tail(before), after)
            ELSE LET r == mongo_update(coll, document_to_note(after[i]), now, "none")
                 IN IF r.ok THEN ApplyUpdates(r.store, Tail(before), after) ELSE r

RECURSIVE ApplyDeletes(_, _, _)
\* repository.delete of every note the call removed
ApplyDeletes(coll, before, after) ==
    IF before = <<>> THEN Ok(coll, NoneValue)
    ELSE IF find_one(after, Head(before).id) # 0
    THEN ApplyDeletes(coll, Tail(before), after)
    ELSE LET r == mongo_delete(coll, Head(before).id, "none")
         IN IF r.ok THEN ApplyDeletes(r.store, Tail(before), after) ELSE r

\* the writes of a call, derived from what it read, applied to the collection as it is now
ApplyWrites(coll, before, after) ==
    LET u == ApplyUpdates(coll, before, after)
    IN IF u.ok THEN ApplyDeletes(u.store, before, after) ELSE u

Issue(op, a, b) ==
    /\ Len(calls) < MaxCalls
    /\ calls' = Append(calls, Call(op, a, b))
    /\ UNCHANGED <<backend, index, files, lastId, now, result, pending>>

\* the call fetches its notes and validates; a call that fails here returns
ReadStep(k) ==
    /\ k \in DOMAIN calls
    /\ calls[k].pc = "read"
    /\ LET r == Alone(calls[k], index)
       IN calls' = [calls EXCEPT ![k] =
                      IF r.status = "ok" THEN [@ EXCEPT !.pc = "write", !.seen = index]
                      ELSE [@ EXCEPT !.pc = "done", !.status = r.status]]
    /\ UNCHANGED <<backend, index, files, lastId, now, result, pending>>

\* the call persists what it derived from the notes it read, and returns
WriteStep(k) ==
    /\ k \in DOMAIN calls
    /\ calls[k].pc = "write"
    /\ LET after == Alone(calls[k], calls[k].seen).store.index
           w == ApplyWrites(index, calls[k].seen, after)
       IN /\ index' = w.store
          /\ calls' = [calls EXCEPT ![k] = [@ EXCEPT !.pc = "done", !.seen = <<>>,
                                                     !.status = IF w.ok THEN "ok" ELSE w.err]]
    /\ UNCHANGED <<backend, files, lastId, now, result, pending>>

\* the shared notes exist, and note 1 may already link to note 2
InitConc ==
    /\ backend = "mongo"
    /\ \E linked \in BOOLEAN :
          index = [i \in SharedIds |->
                    note_to_document(
                      Note(i, "alpha", "body", "PERMANENT", <<>>,
                           IF linked /\ i = 1 THEN <<Link(1, 2, "REFERENCE", NoneValue, 0)>>
                           ELSE <<>>,
                           0, 0, EmptyMetadata))]
    /\ files = <<>>
    /\ lastId = MaxShared
    /\ now = 0
    /\ result = Returned("none", "ok")
    /\ pending = NoId
    /\ calls = <<>>

NextConc ==
    \/ \E op \in Ops, a, b \in SharedIds : Issue(op, a, b)
    \/ \E k \in 1..MaxCalls : ReadStep(k)
    \/ \E k \in 1..MaxCalls : WriteStep(k)

SpecConc == InitConc /\ [][NextConc]_vars

AllReturned == calls # <<>> /\ \A k \in DOMAIN calls : calls[k].pc = "done"

\* C7: referential integrity under concurrent mutation requests: for every
\* interleaving of the read and write steps of concurrently issued
\* create_link, remove_link, update_note and delete_note calls, once all calls
\* have returned every link of a stored note has a stored note as its target.
C7_ReferentialIntegrity ==
    AllReturned =>
        \A i \in DOMAIN index : \A j \in DOMAIN index[i].links :
            index[i].links[j].target_id \in Ids(index)

----------------------------------------------------------------------------
(* Centrality and orphans of the link graph *)

NextSearch ==
    \/ zk_create_note("alpha", "body", "permanent", Nothing)
    \/ \E id \in NoteIds : zk_delete_note(id)
    \/ \E s, t \in NoteIds, ty \in {"reference", "Supports"}, bi \in BOOLEAN :
           zk_create_link(s, t, ty, NoneValue, bi)
    \/ \E limit \in 1..MaxLimit : zk_find_central_notes(limit)
    \/ zk_find_orphaned_notes

SpecSearch == Init /\ [][NextSearch]_vars

\* the links a stored note holds
Outgoing(coll, id) ==
    {<<i, k>> \in (DOMAIN coll) \X (1..MaxLinks + 1) :
        coll[i].id = id /\ k \in DOMAIN coll[i].links}

\* the links other stored notes hold whose target is id
Incoming(coll, id) == {<<i, k>> \in LinksTo(coll, id) : coll[i].id # id}

Degree(coll, id) == Cardinality(Outgoing(coll, id)) + Cardinality(Incoming(coll, id))

\* C12: find_central_notes(limit) reports for each returned note its outgoing
\* links plus the links other notes hold to it, in descending degree with ties
\* in ascending id order, at most limit entries; with notes A and B and one
\* link A -> B both are reported with degree 1.
C12_CentralNotes ==
    (result.tool = "zk_find_central_notes" /\ result.status = "ok") =>
        LET listed == result.listed
        IN /\ Len(listed) <= result.limit
           /\ \A k \in DOMAIN listed :
                  listed[k][1] \in Ids(index) /\ listed[k][2] = Degree(index, listed[k][1])
           /\ \A k, l \in DOMAIN listed :
                  k < l => \/ listed[k][2] > listed[l][2]
                           \/ listed[k][2] = listed[l][2] /\ listed[k][1] < listed[l][1]
           /\ (/\ Len(index) = 2 /\ TotalLinks(index) = 1 /\ result.limit >= 2
               /\ \E i \in DOMAIN index : index[i].links # <<>>
                                            /\ index[i].links[1].target_id # index[i].id)
                  => {listed[k] : k \in DOMAIN listed} = {<<id, 1>> : id \in Ids(index)}

\* central notes were listed for two notes joined by one link
C12_Witness ==
    /\ result.tool = "zk_find_central_notes"
    /\ result.status = "ok"
    /\ result.limit = 2
    /\ Len(index) = 2
    /\ TotalLinks(index) = 1
    /\ Len(result.listed) = 2
    /\ result.listed[1][2] = 1

Orphans(coll) == {id \in Ids(coll) : Outgoing(coll, id) = {} /\ Incoming(coll, id) = {}}

\* C13: find_orphaned_notes() returns exactly the stored notes that hold no
\* link and are the target of no link held by another note: a freshly created
\* note without links is returned, neither endpoint of a link A -> B is.
C13_OrphanedNotes ==
    result.tool = "zk_find_orphaned_notes" =>
        IF result.status = "none_found" THEN Orphans(index) = {}
        ELSE /\ result.status = "ok"
             /\ {result.listed[k] : k \in DOMAIN result.listed} = Orphans(index)
             /\ Len(result.listed) = Cardinality(Orphans(index))

\* orphans were listed while two other notes are joined by a link
C13_Witness ==
    /\ result.tool = "zk_find_orphaned_notes"
    /\ result.status = "ok"
    /\ Len(result.listed) = 1
    /\ Len(index) = 3
    /\ TotalLinks(index) = 1

----------------------------------------------------------------------------
(* Note Codec round trip *)

\* well-formed notes: one-line title, tag names unique and free of commas,
\* links to other notes with or without a description
CodecNotes ==
    {Note(1, title, content, "PERMANENT", [i \in DOMAIN tags |-> Tag(tags[i])], links,
          created, created, EmptyMetadata) :
        title \in {"alpha", "bravo"},
        content \in {"body", "body\n\n## Links"},
        tags \in {<<>>, <<"t1">>, <<"t1", "t2">>, <<"t2", "t1">>},
        links \in {<<>>,
                   <<Link(1, 2, "REFERENCE", NoneValue, 0)>>,
                   <<Link(1, 2, "REFERENCE", "d", 0), Link(1, 3, "SUPPORTS", NoneValue, 0)>>,
                   <<Link(1, 3, "SUPPORTS", "d", 0), Link(1, 3, "REFERENCE", "d", 0)>>},
        created \in {0, 1}}

Encode(note) ==
    /\ result' = [tool |-> "encode", status |-> "ok", note |-> note, text |-> encode_text(note)]
    /\ UNCHANGED <<backend, index, files, lastId, now, pending, calls>>

Decode ==
    /\ result.tool = "encode"
    /\ result' = [tool |-> "decode", status |-> "ok", note |-> result.note,
                  text |-> result.text,
                  decoded |-> decode_text(result.text, result.note.id, now)]
    /\ UNCHANGED <<backend, index, files, lastId, now, pending, calls>>

NextCodec ==
    \/ \E note \in CodecNotes : Encode(note)
    \/ Decode

SpecCodec == Init /\ [][NextCodec]_vars

----------------------------------------------------------------------------
(* The repository contract: create, get, update, delete *)

CrudTags == {<<"alpha">>, <<"beta">>}

\* the links passed with note id; a note that has no id yet has no links
CrudLinks(id) == IF id = NoId THEN {<<>>} ELSE LinkInputs(id)

\* repository.get(id): the store is only read
repository_get(id) ==
    /\ LET r == repo_get(backend, Cur, id)
       IN result' = [tool |-> "get", status |-> IF r.found THEN "ok" ELSE "absent",
                     id |-> id, note |-> r.note]
    /\ UNCHANGED <<backend, index, files, lastId, now, pending, calls>>

NextCrud ==
    \/ \E id \in FileIds \cup {NoId}, tg \in CrudTags :
           \E li \in CrudLinks(id) : repository_create(id, "alpha", "HUB", tg, li, "none")
    \/ \E id \in FileIds, tg \in CrudTags :
           \E li \in CrudLinks(id) : repository_update(id, "bravo", tg, li, "none")
    \/ \E id \in FileIds : repository_delete(id, "none")
    \/ \E id \in FileIds : repository_get(id)

SpecCrud == InitSync /\ [][NextCrud]_vars

\* C15: create of a note whose id is already stored fails with an error and
\* leaves the store unchanged, so no two stored notes ever share an id; create
\* of a note without an id stores it under a non-empty id.
C15_CreateConflict ==
    /\ [](UniqueIds(index) /\ NoId \notin Ids(index))
    /\ [][result'.tool = "create" =>
            \A id \in FileIds \cup {NoId}, tg \in CrudTags :
                \A li \in CrudLinks(id) :
                    repository_create(id, "alpha", "HUB", tg, li, "none") =>
                        /\ id \in Ids(index) =>
                               /\ result'.status # "ok"
                               /\ index' = index
                               /\ files' = files
                        /\ (id = NoId /\ result'.status = "ok") =>
                               /\ generate_id(now, lastId) # NoId
                               /\ Ids(index') = Ids(index) \cup {generate_id(now, lastId)}
                               /\ Len(index') = Len(index) + 1]_vars

\* a create was refused while two notes were stored
C15_Witness ==
    /\ result.tool = "create"
    /\ result.status \in {"IOError", "ConflictError"}
    /\ Len(index) = 2
    /\ lastId > 0

\* the errors that say "no note has this id": ValueError("Note with ID ... does
\* not exist") of the Mongo repository, NotFoundError of the file repository
NotFound == {"ValueError", "NotFoundError"}

\* every stored note but id is stored after the step, as it was
OthersKept(id) ==
    /\ \A x \in Ids(index) \ {id} :
           x \in Ids(index') /\ IndexNote(index', x) = IndexNote(index, x)
    /\ \A x \in DOMAIN files \ {id} : x \in DOMAIN files' /\ files'[x] = files[x]

\* C16: update and delete of an id that is not stored fail with a not-found
\* error and leave the store unchanged; of a stored id, update replaces only
\* that note and delete removes only that note, every other note unchanged.
C16_NotFound ==
    [][/\ result'.tool = "update" =>
            \A id \in FileIds, tg \in CrudTags :
                \A li \in CrudLinks(id) :
                    repository_update(id, "bravo", tg, li, "none") =>
                        IF id \notin Ids(index)
                        THEN /\ result'.status \in NotFound
                             /\ index' = index
                             /\ files' = files
                        ELSE /\ result'.status = "ok"
                             /\ Ids(index') = Ids(index)
                             /\ Len(index') = Len(index)
                             /\ IndexNote(index', id).title = "bravo"
                             /\ DOMAIN files' = DOMAIN files
                             /\ OthersKept(id)
       /\ result'.tool = "delete" =>
            \A id \in FileIds :
                repository_delete(id, "none") =>
                    IF id \notin Ids(index)
                    THEN /\ result'.status \in NotFound
                         /\ index' = index
                         /\ files' = files
                    ELSE /\ result'.status = "ok"
                         /\ Ids(index') = Ids(index) \ {id}
                         /\ Len(index') = Len(index) - 1
                         /\ DOMAIN files' = DOMAIN files \ {id}
                         /\ OthersKept(id)]_vars

\* an update of an id that is not stored was refused while another note was stored
C16_Witness ==
    /\ result.tool = "update"
    /\ result.status \in NotFound
    /\ Len(index) = 1

\* what get(id) answers before and after the step
Got(id) == repo_get(backend, Cur, id)
GotNext(id) == repo_get(backend', Store(index', files'), id)

\* after the step get(id) answers with the note that was passed
Reads(id, title, note_type, tags, links) ==
    /\ GotNext(id).found
    /\ GotNext(id).note.id = id
    /\ GotNext(id).note.title = title
    /\ GotNext(id).note.content = "body"
    /\ GotNext(id).note.note_type = note_type
    /\ TagSet(GotNext(id).note) = Range(tags)
    /\ GotNext(id).note.links = links

\* after the step get answers as before, but possibly for id
SameReads(id) == \A x \in (1..(MaxNotes * (MaxClock + 1))) \ {id} : GotNext(x) = Got(x)

\* C17: get(id) returns a note iff id was created and not deleted since, with
\* the title, content, note_type, tag set and links passed to the most recent
\* successful create or update of that id. Stated step by step: nothing is
\* stored at the start; a successful create or update makes get(id) answer
\* with what was passed, a successful delete makes it answer absent, and
\* every other step and every other id reads as before.
C17_GetReflectsWrites ==
    /\ \A x \in FileIds : ~Got(x).found
    /\ [][/\ result'.tool = "create" =>
                \A id \in FileIds \cup {NoId}, tg \in CrudTags :
                    \A li \in CrudLinks(id) :
                        repository_create(id, "alpha", "HUB", tg, li, "none") =>
                            LET stored == IF id = NoId THEN generate_id(now, lastId) ELSE id
                            IN IF result'.status = "ok"
                               THEN /\ ~Got(stored).found
                                    /\ Reads(stored, "alpha", "HUB", tg, li)
                                    /\ SameReads(stored)
                               ELSE SameReads(NoId)
          /\ result'.tool = "update" =>
                \A id \in FileIds, tg \in CrudTags :
                    \A li \in CrudLinks(id) :
                        repository_update(id, "bravo", tg, li, "none") =>
                            IF result'.status = "ok"
                            THEN /\ Got(id).found
                                 /\ Reads(id, "bravo", Got(id).note.note_type, tg, li)
                                 /\ SameReads(id)
                            ELSE SameReads(NoId)
          /\ result'.tool = "delete" =>
                \A id \in FileIds :
                    repository_delete(id, "none") =>
                        IF result'.status = "ok"
                        THEN Got(id).found /\ ~GotNext(id).found /\ SameReads(id)
                        ELSE SameReads(NoId)
          /\ result'.tool = "get" =>
                \A id \in FileIds :
                    repository_get(id) =>
                        /\ SameReads(NoId)
                        /\ result'.note = Got(id).note
                        /\ (result'.status = "ok") = Got(id).found]_vars

\* get read back a note that an update had given the tag set {beta}
C17_Witness ==
    /\ result.tool = "get"
    /\ result.status = "ok"
    /\ result.note.title = "bravo"
    /\ TagSet(result.note) = {"beta"}
    /\ result.note.links # <<>>

----------------------------------------------------------------------------
(* Partial updates of a note *)

\* the arguments of zk_update_note: title, content, note_type, tags; a tags
\* string is given by its pieces between commas, <<"">> being the empty string
UpdateInputs ==
    {<<Some("bravo"), Nothing, Nothing, Nothing>>,
     <<Nothing, Some("text"), Some(""), Nothing>>,
     <<Nothing, Nothing, Some("HUB"), Nothing>>,
     <<Nothing, Nothing, Some("bogus"), Nothing>>,
     <<Nothing, Nothing, Nothing, Some(<<"">>)>>,
     <<Some("bravo"), Nothing, Nothing, Some(<<"t1", " t2 ">>)>>}

MaxUpdated == 2    \* note ids that zk_update_note is called with

UpdatedIds == 1..MaxUpdated

NextUpdate ==
    \/ zk_create_note("alpha", "body", "permanent", Some(<<"t1">>))
    \/ \E s \in NoteIds : zk_create_link(s, 1, "reference", NoneValue, FALSE)
    \/ \E id \in UpdatedIds, inp \in UpdateInputs :
           zk_update_note(id, inp[1], inp[2], inp[3], inp[4])

SpecUpdate == Init /\ [][NextUpdate]_vars

\* the tag set a tags argument stands for
TagsGiven(tags) == IF tags.value = <<"">> THEN {} ELSE {"t1", "t2"}

\* C18: update_note changes only the fields that were provided: a field not
\* provided, and the id, created_at and links of the note, keep their values
\* and every other note is unchanged; through zk_update_note, omitting tags
\* retains the tag set and the empty string clears it.
C18_UpdateOnlyProvided ==
    [][result'.tool = "zk_update_note" =>
          \A id \in UpdatedIds, inp \in UpdateInputs :
              zk_update_note(id, inp[1], inp[2], inp[3], inp[4]) =>
                  IF result'.status # "ok"
                  THEN index' = index /\ files' = files
                  ELSE LET old == Got(id).note
                           new == GotNext(id).note
                       IN /\ Got(id).found /\ GotNext(id).found
                          /\ new.id = old.id
                          /\ new.created_at = old.created_at
                          /\ new.links = old.links
                          /\ new.title = IF inp[1].given THEN inp[1].value ELSE old.title
                          /\ new.content = IF inp[2].given THEN inp[2].value ELSE old.content
                          /\ new.note_type = IF inp[3].given /\ inp[3].value = "HUB"
                                             THEN "HUB" ELSE old.note_type
                          /\ TagSet(new) = IF inp[4].given THEN TagsGiven(inp[4])
                                           ELSE TagSet(old)
                          /\ SameReads(id)]_vars

\* the empty string cleared the tags of a note that has a link and was never
\* given a title
C18_Witness ==
    /\ result = Returned("zk_update_note", "ok")
    /\ \E i \in DOMAIN index :
           /\ index[i].tags = <<>>
           /\ index[i].links # <<>>
           /\ index[i].title = "alpha"

----------------------------------------------------------------------------
(* Note ids over the life of the store *)

\* C19: a note id is never reused: once the note with id x has been deleted,
\* no later create produces or accepts a note with id x. Checked on the Mongo
\* repository at the state a successful delete(x) leaves: create of a note
\* that carries the id x is not accepted there.
C19_IdNeverReused ==
    [][(backend = "mongo" /\ result'.tool = "delete" /\ result'.status = "ok") =>
          \A x \in FileIds :
              repository_delete(x, "none") =>
                  LET entity == Note(x, "alpha", "body", "HUB", <<>>, <<>>, now', now',
                                     EmptyMetadata)
                      again == repo_create(backend', Store(index', files'), entity,
                                           generate_id(now', lastId'), now', "none")
                  IN ~again.ok]_vars

\* a second passes on the clock
Tick ==
    /\ now < MaxClock
    /\ now' = now + 1
    /\ UNCHANGED <<backend, index, files, lastId, result, pending, calls>>

\* every id the generator gives out while the clock runs
ClockIds == 1..(MaxNotes * (MaxClock + 1))

\* notes created without an id, through the tool and through the repository
NextIds ==
    \/ zk_create_note("alpha", "body", "permanent", Nothing)
    \/ repository_create(NoId, "alpha", "HUB", <<"alpha">>, <<>>, "none")
    \/ \E id \in ClockIds : repository_delete(id, "none")
    \/ Tick

SpecIds == InitSync /\ [][NextIds]_vars

\* the stored notes that were created at second t
CreatedAt(t) == {i \in DOMAIN index : index[i].created_at = t}

\* C20: notes created within the same second receive distinct ids and every
\* such creation succeeds: a collision of ids is never answered as an error.
C20_SameSecondIds ==
    /\ [](\A i, j \in DOMAIN index :
             (index[i].created_at = index[j].created_at /\ i # j) =>
                 index[i].id # index[j].id)
    /\ [][(/\ result'.tool \in {"zk_create_note", "create"}
           /\ \/ zk_create_note("alpha", "body", "permanent", Nothing)
              \/ repository_create(NoId, "alpha", "HUB", <<"alpha">>, <<>>, "none")) =>
              /\ result'.status = "ok"
              /\ Len(index') = Len(index) + 1
              /\ index'[Len(index')].id = generate_id(now, lastId)
              /\ index'[Len(index')].id \notin Ids(index)
              /\ index'[Len(index')].created_at = now]_vars

\* a creation succeeded in a second in which another note had been created
C20_Witness ==
    /\ result.tool \in {"zk_create_note", "create"}
    /\ result.status = "ok"
    /\ now = MaxClock
    /\ Cardinality(CreatedAt(now)) >= 2

----------------------------------------------------------------------------
(* Queries on the stored notes *)

Directions == {"outgoing", "incoming", "both", "sideways"}

\* repository.find_linked_notes(id, direction) called by a client
repository_find_linked_notes(id, direction) ==
    /\ result' = IF valid_direction(direction)
                 THEN [tool |-> "find_linked_notes", status |-> "ok", id |-> id,
                       direction |-> direction,
                       listed |-> repo_find_linked_notes(backend, Cur, id, direction)]
                 ELSE [tool |-> "find_linked_notes", status |-> "ValueError", id |-> id,
                       direction |-> direction, listed |-> <<>>]
    /\ UNCHANGED <<backend, index, files, lastId, now, pending, calls>>

NextLinked ==
    \/ zk_create_note("alpha", "body", "permanent", Nothing)
    \/ \E id \in NoteIds : zk_delete_note(id)
    \/ \E s, t \in NoteIds, bi \in BOOLEAN : zk_create_link(s, t, "reference", NoneValue, bi)
    \/ \E id \in NoteIds, d \in Directions : repository_find_linked_notes(id, d)

SpecLinked == Init /\ [][NextLinked]_vars

\* the stored notes that are targets of the links of note id
Targets(id) ==
    {x \in Ids(index) :
        \E i \in DOMAIN index :
            index[i].id = id /\ \E k \in DOMAIN index[i].links : index[i].links[k].target_id = x}

\* the other stored notes that hold a link to note id
Sources(id) ==
    {x \in Ids(index) \ {id} :
        \E i \in DOMAIN index :
            index[i].id = x /\ \E k \in DOMAIN index[i].links : index[i].links[k].target_id = id}

\* C21: find_linked_notes(id, "outgoing") returns exactly the stored notes
\* that are targets of id's links, "incoming" exactly the other stored notes
\* holding a link to id, "both" the union with each note listed once; any
\* other direction is rejected with an error.
C21_FindLinkedNotes ==
    result.tool = "find_linked_notes" =>
        LET listed == result.listed
            ids == {listed[k].id : k \in DOMAIN listed}
            expected == CASE result.direction = "outgoing" -> Targets(result.id)
                          [] result.direction = "incoming" -> Sources(result.id)
                          [] result.direction = "both" ->
                                 Targets(result.id) \cup Sources(result.id)
                          [] OTHER -> {}
        IN /\ (result.status = "ValueError") = (result.direction = "sideways")
           /\ result.status \in {"ok", "ValueError"}
           /\ ids = expected
           /\ Len(listed) = Cardinality(expected)
           /\ \A k \in DOMAIN listed : listed[k] = IndexNote(index, listed[k].id)

\* "both" listed once a note that is linked in both directions
C21_Witness ==
    /\ result.tool = "find_linked_notes"
    /\ result.direction = "both"
    /\ Len(result.listed) = 1
    /\ Len(index) = 3
    /\ Targets(result.id) \cap Sources(result.id) # {}

\* repository.get_all_tags() called by a client
repository_get_all_tags ==
    /\ LET tags == mongo_get_all_tags(index)
       IN result' = [tool |-> "get_all_tags", status |-> "ok",
                     listed |-> [i \in DOMAIN tags |-> tags[i].name]]
    /\ UNCHANGED <<backend, index, files, lastId, now, pending, calls>>

\* repository.find_by_tag(tag) called by a client
repository_find_by_tag(tag) ==
    /\ LET notes == mongo_find_by_tag(index, tag)
       IN result' = [tool |-> "find_by_tag", status |-> "ok", tag |-> tag,
                     listed |-> [i \in DOMAIN notes |-> notes[i].id]]
    /\ UNCHANGED <<backend, index, files, lastId, now, pending, calls>>

\* the notes a client writes: title, content, note_type, tags
NoteInputs ==
    {<<"Ab", "xy", "permanent", Some(<<"t1", "t1">>)>>,
     <<"cd", "ab", "HUB", Some(<<"t1", " t2 ">>)>>,
     <<"cd", "xy", "permanent", Nothing>>}

NextFind ==
    \/ \E n \in NoteInputs : zk_create_note(n[1], n[2], n[3], n[4])
    \/ \E s, t \in 1..2 : zk_create_link(s, t, "reference", NoneValue, FALSE)
    \/ \E q \in {Nothing, Some("AB"), Some("zz")},
          tg \in {Nothing, Some(<<"">>), Some(<<"t1", " t2 ">>)},
          nt \in {Nothing, Some("HUB"), Some("bogus")}, limit \in 1..MaxLimit :
           zk_search_notes(q, tg, nt, limit)
    \/ repository_get_all_tags
    \/ \E tag \in {"t1", "t2", "beta"} : repository_find_by_tag(tag)

SpecFind == Init /\ [][NextFind]_vars

\* the stored documents that match what zk_search_notes was asked for
Matching(asked) ==
    SelectSeq(index, LAMBDA d :
        /\ asked.query = Some("AB") => d.title = "Ab" \/ d.content = "ab"
        /\ asked.query # Some("zz")
        /\ asked.tags = Some(<<"t1", " t2 ">>) => {"t1", "t2"} \subseteq Range(d.tags)
        /\ asked.note_type = Some("HUB") => d.note_type = "hub")

\* C22: search_combined returns exactly the notes that satisfy all supplied
\* criteria together: text matches title or content whatever the case, the
\* note carries every requested tag, the note_type is the one asked for; with
\* no criterion it returns all notes. Read off the answer of zk_search_notes,
\* which lists the first `limit` of them.
C22_SearchCombined ==
    result.tool = "zk_search_notes" =>
        LET expected == Matching(result)
            shown == IF result.limit < Len(expected) THEN result.limit ELSE Len(expected)
        IN IF result.note_type = Some("bogus")
           THEN result.status = "invalid_type"
           ELSE /\ result.status = (IF expected = <<>> THEN "none_found" ELSE "ok")
                /\ result.listed = [i \in 1..shown |-> expected[i].id]

\* a search for text in another case, two tags and a type listed one of three notes
C22_Witness ==
    /\ result.tool = "zk_search_notes"
    /\ result.status = "ok"
    /\ result.query = Some("AB")
    /\ result.tags = Some(<<"t1", " t2 ">>)
    /\ result.note_type = Some("HUB")
    /\ Len(result.listed) = 1
    /\ Len(index) = 3
    /\ \E i \in DOMAIN index : Range(index[i].tags) = {"t1"}

----------------------------------------------------------------------------
(* Notes over time: creation and modification dates *)

Dates == {Nothing} \cup {Some(t) : t \in 0..MaxClock}

NextDates ==
    \/ zk_create_note("alpha", "body", "permanent", Some(<<"t1">>))
    \/ \E id \in UpdatedIds : zk_update_note(id, Some("bravo"), Nothing, Nothing, Nothing)
    \/ Tick
    \/ \E s, e \in Dates, u \in BOOLEAN, limit \in 1..MaxLimit :
           zk_list_notes_by_date(s, e, u, limit)

SpecDates == Init /\ [][NextDates]_vars

\* the stored documents whose date lies in the range that was asked for
InRange(asked) ==
    SelectSeq(index, LAMBDA d :
        LET date == IF asked.use_updated THEN d.updated_at ELSE d.created_at
        IN /\ asked.start_date.given => ~(date < asked.start_date.value)
           /\ asked.end_date.given => ~(date > asked.end_date.value))

\* C23: the date-range filter is inclusive on both ends: a note whose
\* created_at (updated_at with use_updated) equals start or equals end is
\* returned, a note outside [start, end] is not, and an absent bound leaves
\* that side unconstrained. Read off the answer of zk_list_notes_by_date,
\* which lists the first `limit` notes of the range.
C23_DateRangeInclusive ==
    result.tool = "zk_list_notes_by_date" =>
        LET expected == InRange(result)
            shown == IF result.limit < Len(expected) THEN result.limit ELSE Len(expected)
        IN /\ result.status = (IF expected = <<>> THEN "none_found" ELSE "ok")
           /\ result.listed = [i \in 1..shown |-> expected[i].id]

\* a range that starts and ends on the day a note was updated listed that note
\* and not the note that was last written the day before
C23_Witness ==
    /\ result.tool = "zk_list_notes_by_date"
    /\ result.status = "ok"
    /\ result.use_updated
    /\ result.start_date = Some(MaxClock)
    /\ result.end_date = Some(MaxClock)
    /\ Len(result.listed) = 1
    /\ Len(index) >= 2
    /\ \E i \in DOMAIN index :
           /\ index[i].id = result.listed[1]
           /\ index[i].created_at < index[i].updated_at
           /\ index[i].updated_at = MaxClock

\* the tag names carried by at least one stored note
StoredTags == UNION {Range(index[i].tags) : i \in DOMAIN index}

\* C24: get_all_tags() returns each tag name carried by at least one stored
\* note exactly once and no other name; find_by_tag(t) returns exactly the
\* stored notes whose tag set contains t.
C24_Tags ==
    /\ result.tool = "get_all_tags" =>
           /\ Range(result.listed) = StoredTags
           /\ Len(result.listed) = Cardinality(StoredTags)
    /\ result.tool = "find_by_tag" =>
           LET tagged == {index[i].id : i \in {j \in DOMAIN index :
                                                  result.tag \in Range(index[j].tags)}}
           IN /\ Range(result.listed) = tagged
              /\ Len(result.listed) = Cardinality(tagged)

\* get_all_tags listed two names for three notes, one of which carries a
\* tag twice and one of which carries none
C24_Witness ==
    /\ result.tool = "get_all_tags"
    /\ Len(result.listed) = 2
    /\ Len(index) = 3
    /\ \E i \in DOMAIN index : index[i].tags = <<"t1", "t1">>
    /\ \E i \in DOMAIN index : index[i].tags = <<>>

----------------------------------------------------------------------------
(* Read operations *)

\* repository.search(**kwargs) called by a client
repository_search(kwargs) ==
    /\ LET notes == mongo_search(index, kwargs)
       IN result' = [tool |-> "search", status |-> "ok", kwargs |-> kwargs,
                     listed |-> [i \in DOMAIN notes |-> notes[i].id]]
    /\ UNCHANGED <<backend, index, files, lastId, now, pending, calls>>

\* the keyword arguments search is called with
SearchInputs ==
    {<<>>,
     [title |-> "AB"],
     [note_type |-> "HUB", content |-> "AB"],
     [tag |-> "t1"],
     [tags |-> <<"t2">>],
     [tag |-> "t2", tags |-> <<"t1">>],
     [linked_to |-> 1],
     [linked_from |-> 1],
     [linked_to |-> 1, linked_from |-> 2],
     [created_after |-> 0, created_before |-> 0],
     [updated_after |-> 0, updated_before |-> 0, tag |-> "t1"]}

NextReads ==
    \/ \E n \in NoteInputs : zk_create_note(n[1], n[2], n[3], n[4])
    \/ \E s, t \in 1..2 : zk_create_link(s, t, "reference", NoneValue, FALSE)
    \/ \E id \in 1..2 : repository_get(id)
    \/ \E id \in 1..2, d \in {"both", "sideways"} : repository_find_linked_notes(id, d)
    \/ repository_get_all_tags
    \/ repository_find_by_tag("t1")
    \/ \E kwargs \in SearchInputs : repository_search(kwargs)
    \/ \E identifier \in {"1", "cd", "zz"} : zk_get_note(identifier)
    \/ zk_search_notes(Some("AB"), Nothing, Nothing, MaxLimit)
    \/ zk_list_notes_by_date(Some(0), Nothing, FALSE, MaxLimit)
    \/ zk_find_central_notes(MaxLimit)
    \/ zk_find_orphaned_notes

SpecReads == Init /\ [][NextReads]_vars

\* the repository reads and the tools annotated readOnlyHint=true
ReadCalls ==
    {"get", "find_linked_notes", "get_all_tags", "find_by_tag", "search", "zk_get_note",
     "zk_search_notes", "zk_list_notes_by_date", "zk_find_central_notes",
     "zk_find_orphaned_notes"}

Satisfying(kwargs) ==
    LET given(k) == k \in DOMAIN kwargs
    IN {d \in Range(index) :
           /\ given("title") => (kwargs.title = "AB" /\ d.title = "Ab")
           /\ given("content") => (kwargs.content = "AB" /\ d.content = "ab")
           /\ given("note_type") => (kwargs.note_type = "HUB" /\ d.note_type = "hub")
           /\ given("tag") => kwargs.tag \in Range(d.tags)
           /\ given("tags") => Range(kwargs.tags) \subseteq Range(d.tags)
           /\ given("linked_to") =>
                  \E k \in DOMAIN d.links : d.links[k].target_id = kwargs.linked_to
           /\ given("linked_from") => d.id \in Targets(kwargs.linked_from)
           /\ given("created_after") => d.created_at >= kwargs.created_after
           /\ given("created_before") => d.created_at <= kwargs.created_before
           /\ given("updated_after") => d.updated_at >= kwargs.updated_after
           /\ given("updated_before") => d.updated_at <= kwargs.updated_before}

\* C29: Repository.search returns exactly the stored notes that satisfy
\* every criterion supplied in the call, linked_to=X meaning that the note
\* holds a link to X and linked_from=X that the note is the target of a link
\* of X, also when several criteria constrain the same field.
C29_SearchCriteria ==
    result.tool = "search" =>
        Range(result.listed) = {d.id : d \in Satisfying(result.kwargs)}

----------------------------------------------------------------------------
(* Repeated tool calls *)

\* zk_update_note(id, title="bravo") is invoked on a note that an earlier
\* invocation with the same arguments has written, and succeeds
UpdatedAgain(id) ==
    /\ result'.tool = "zk_update_note"
    /\ result'.status = "ok"
    /\ Got(id).found
    /\ Got(id).note.title = "bravo"
    /\ zk_update_note(id, Some("bravo"), Nothing, Nothing, Nothing)

----------------------------------------------------------------------------
(* Tool calls that fail *)

WriteFaults == {"none", "first", "second"}

NextErrors ==
    \/ zk_create_note("alpha", "body", "permanent", Nothing)
    \/ \E s, t \in NoteIds, ty \in {"reference", "bogus"}, bi \in BOOLEAN, f \in WriteFaults :
           zk_create_link_under(s, t, ty, NoneValue, bi, f)
    \/ \E d \in {Some(0 - 1), Some(0)}, u \in BOOLEAN : zk_list_notes_by_date(d, Nothing, u, 1)

SpecErrors == Init /\ [][NextErrors]_vars

\* the documents of coll with a link from s to t added to the links of s
WithLink(coll, s, t) ==
    [i \in DOMAIN coll |->
        IF coll[i].id = s
        THEN [coll[i] EXCEPT !.links = Append(@, [source_id |-> s, target_id |-> t,
                                                   link_type |-> "reference",
                                                   description |-> NoneValue,
                                                   created_at |-> now]),
                             !.updated_at = now]
        ELSE coll[i]]

\* a zk_create_link call between two stored, unlinked notes
Linkable(s, t) == s \in Ids(index) /\ t \in Ids(index) /\ NoLink(index, s, t)

----------------------------------------------------------------------------
(* Configuration: the database setting (config.py) *)

\* pathlib.Path: absolute or relative to the working directory, and its
\* segments; Path(".") is the relative path without segments
Path(abs, segs) == [abs |-> abs, segs |-> segs]

parent(path) == Path(path.abs, SubSeq(path.segs, 1, Len(path.segs) - 1))

\* the directories after path.mkdir(parents=True, exist_ok=True)
mkdir(dirs, path) == dirs \cup {Path(path.abs, SubSeq(path.segs, 1, k)) : k \in 1..Len(path.segs)}

exists(dirs, path) == path.segs = <<>> \/ path \in dirs

\* the database setting: a plain path (no scheme) or a URL, held in the
\* parts make_url reads from it and render_as_string writes back
PlainPath(path) == [scheme |-> "", authority |-> "", database |-> Some(path)]

Url(scheme, authority, database) ==
    [scheme |-> scheme, authority |-> authority, database |-> database]

Memory == Path(FALSE, <<":memory:">>)

\* url.get_backend_name(): the driver name up to "+"
get_backend_name(url) ==
    CASE url.scheme \in {"sqlite", "sqlite+pysqlite"} -> "sqlite"
      [] url.scheme = "postgresql+psycopg" -> "postgresql"
      [] url.scheme = "mysql+pymysql" -> "mysql"
      [] OTHER -> url.scheme

get_absolute_path(base_dir, path) ==
    IF path.abs THEN path ELSE Path(base_dir.abs, base_dir.segs \o path.segs)

is_database_url(database) == database.scheme # ""

\* the directories after _ensure_sqlite_directory(db_url)
ensure_sqlite_directory(base_dir, db_url, dirs) ==
    IF get_backend_name(db_url) # "sqlite" \/ ~db_url.database.given THEN dirs
    ELSE mkdir(dirs, parent(get_absolute_path(base_dir, db_url.database.value)))

\* the URL get_db_url returns and the directories it leaves
get_db_url(base_dir, database, dirs) ==
    LET db_url == IF is_database_url(database)
                  THEN IF /\ get_backend_name(database) = "sqlite"
                          /\ database.database.given
                          /\ database.database.value # Memory
                       THEN Url(database.scheme, database.authority,
                                Some(get_absolute_path(base_dir, database.database.value)))
                       ELSE database
                  ELSE Url("sqlite", "",
                           Some(get_absolute_path(base_dir, database.database.value)))
    IN [value |-> db_url, dirs |-> ensure_sqlite_directory(base_dir, db_url, dirs)]

uses_sqlite(base_dir, database, dirs) ==
    LET r == get_db_url(base_dir, database, dirs)
    IN [value |-> get_backend_name(r.value) = "sqlite", dirs |-> r.dirs]

MaxDirs == 3

BaseDirs == {Path(FALSE, <<>>), Path(FALSE, <<"zk">>), Path(TRUE, <<"tmp">>)}

Databases ==
    {PlainPath(Path(FALSE, <<"data", "db", "zettelkasten.db">>)),
     PlainPath(Path(FALSE, <<"db", "test.db">>)),
     PlainPath(Path(TRUE, <<"var", "test.db">>)),
     Url("sqlite", "", Some(Path(FALSE, <<"relative.db">>))),
     Url("sqlite+pysqlite", "", Some(Path(TRUE, <<"var", "abs.db">>))),
     Url("sqlite", "", Some(Memory)),
     Url("sqlite", "", Nothing),
     Url("postgresql+psycopg", "user:pass@localhost:5432",
         Some(Path(FALSE, <<"zettelkasten">>))),
     Url("mysql+pymysql", "user:pass@localhost:3306", Some(Path(FALSE, <<"zettelkasten">>)))}

\* the configuration and the directories on disk, with what the last call returned
Configured(tool, base_dir, database, dirs, db_url, sqlite) ==
    [tool |-> tool, status |-> "ok", base_dir |-> base_dir, database |-> database,
     dirs |-> dirs, db_url |-> db_url, sqlite |-> sqlite]

\* no URL returned by the last call
NoUrl == Url("", "", Nothing)

ZettelkastenConfig(base_dir, database) ==
    /\ Cardinality(result.dirs) <= MaxDirs
    /\ result' = Configured("ZettelkastenConfig", base_dir, database, result.dirs, NoUrl,
                            FALSE)
    /\ UNCHANGED <<backend, index, files, lastId, now, pending, calls>>

config_get_db_url ==
    /\ LET r == get_db_url(result.base_dir, result.database, result.dirs)
       IN result' = Configured("get_db_url", result.base_dir, result.database, r.dirs,
                               r.value, FALSE)
    /\ UNCHANGED <<backend, index, files, lastId, now, pending, calls>>

config_uses_sqlite ==
    /\ LET r == uses_sqlite(result.base_dir, result.database, result.dirs)
       IN result' = Configured("uses_sqlite", result.base_dir, result.database, r.dirs,
                               NoUrl, r.value)
    /\ UNCHANGED <<backend, index, files, lastId, now, pending, calls>>

\* config = ZettelkastenConfig() with no environment variable set
InitConfig ==
    /\ backend = "filesystem"
    /\ index = <<>>
    /\ files = <<>>
    /\ lastId = 0
    /\ now = 0
    /\ result = Configured("ZettelkastenConfig", Path(FALSE, <<>>),
                           PlainPath(Path(FALSE, <<"data", "db", "zettelkasten.db">>)),
                           {}, NoUrl, FALSE)
    /\ pending = NoId
    /\ calls = <<>>

NextConfig ==
    \/ \E base_dir \in BaseDirs, database \in Databases : ZettelkastenConfig(base_dir, database)
    \/ config_get_db_url
    \/ config_uses_sqlite

SpecConfig == InitConfig /\ [][NextConfig]_vars

\* the database file a SQLite URL names
DatabaseFile(url) == url.database.value

\* C28: get_db_url() on a plain path returns sqlite:/// followed by the path
\* resolved against base_dir and afterwards the parent directory of the
\* database file exists; on a non-SQLite URL it returns the URL unchanged and
\* creates no directory; on a relative SQLite URL it resolves the database
\* path against base_dir. uses_sqlite() is true exactly in the SQLite cases.
C28_DbUrl ==
    [][LET base_dir == result.base_dir
           database == result.database
           resolved == IF database.database.value.abs THEN database.database.value
                       ELSE Path(base_dir.abs, base_dir.segs \o database.database.value.segs)
           sqlite == database.scheme \in {"", "sqlite", "sqlite+pysqlite"}
       IN /\ (result'.tool = "get_db_url" /\ database.scheme = "") =>
                /\ result'.db_url = Url("sqlite", "", Some(resolved))
                /\ exists(result'.dirs, parent(DatabaseFile(result'.db_url)))
          /\ (result'.tool = "get_db_url" /\ ~sqlite) =>
                /\ result'.db_url = database
                /\ result'.dirs = result.dirs
          /\ (result'.tool = "get_db_url" /\ database.scheme = "sqlite"
                 /\ database.database.given /\ database.database.value # Memory) =>
                result'.db_url.database = Some(resolved)
          /\ result'.tool = "uses_sqlite" => result'.sqlite = sqlite]_vars

\* what get_db_url returns and uses_sqlite answers, the directory of a plain
\* path left aside
DbUrlReturned ==
    [][LET base_dir == result.base_dir
           database == result.database
           resolved == IF database.database.value.abs THEN database.database.value
                       ELSE Path(base_dir.abs, base_dir.segs \o database.database.value.segs)
           sqlite == database.scheme \in {"", "sqlite", "sqlite+pysqlite"}
       IN /\ (result'.tool = "get_db_url" /\ database.scheme = "") =>
                result'.db_url = Url("sqlite", "", Some(resolved))
          /\ (result'.tool = "get_db_url" /\ ~sqlite) =>
                /\ result'.db_url = database
                /\ result'.dirs = result.dirs
          /\ (result'.tool = "get_db_url" /\ database.scheme = "sqlite"
                 /\ database.database.given /\ database.database.value # Memory) =>
                result'.db_url.database = Some(resolved)
          /\ result'.tool = "uses_sqlite" => result'.sqlite = sqlite]_vars

----------------------------------------------------------------------------
(* Notes written to documents and read back *)

DocNotes ==
    {Note(id, title, "body", note_type, [i \in DOMAIN tags |-> Tag(tags[i])], links,
          created, updated, metadata) :
        id \in 1..2,
        title \in {"alpha", ""},
        note_type \in {"PERMANENT", "HUB"},
        tags \in {<<>>, <<"t2", "t1">>, <<"t1", "t1">>},
        links \in {<<>>,
                   <<Link(1, 2, "REFERENCE", NoneValue, 0)>>,
                   <<Link(2, 3, "SUPPORTS", "d", 1), Link(1, 3, "REFERENCE", "d", 0)>>,
                   <<Link(3, 3, "REFERENCE", "d", 0), Link(3, 3, "REFERENCE", "d", 0)>>},
        created \in {0},
        updated \in {0, 1},
        metadata \in {EmptyMetadata, <<<<"k", "v">>>>}}

ToDocument(note) ==
    /\ result' = [tool |-> "note_to_document", status |-> "ok", note |-> note,
                  document |-> note_to_document(note)]
    /\ UNCHANGED <<backend, index, files, lastId, now, pending, calls>>

ToNote ==
    /\ result.tool = "note_to_document"
    /\ result' = [tool |-> "document_to_note", status |-> "ok", note |-> result.note,
                  document |-> result.document,
                  back |-> document_to_note(result.document)]
    /\ UNCHANGED <<backend, index, files, lastId, now, pending, calls>>

NextDocs ==
    \/ \E note \in DocNotes : ToDocument(note)
    \/ ToNote

SpecDocs == Init /\ [][NextDocs]_vars

\* C30: for every note n, document_to_note(note_to_document(n)) has the id,
\* title, content, note_type, tag names, created_at, updated_at and metadata
\* of n and the same ordered list of links (target_id, link_type,
\* description, created_at), and every link of the result has the note's id as
\* its source_id, even when a link of n carried another source_id.
C30_DocumentRoundTrip ==
    result.tool = "document_to_note" =>
        LET n == result.note
            back == result.back
        IN /\ back.id = n.id
           /\ back.title = n.title
           /\ back.content = n.content
           /\ back.note_type = n.note_type
           /\ [i \in DOMAIN back.tags |-> back.tags[i].name]
                 = [i \in DOMAIN n.tags |-> n.tags[i].name]
           /\ back.created_at = n.created_at
           /\ back.updated_at = n.updated_at
           /\ back.metadata = n.metadata
           /\ Len(back.links) = Len(n.links)
           /\ \A i \in DOMAIN n.links :
                 /\ back.links[i].target_id = n.links[i].target_id
                 /\ back.links[i].link_type = n.links[i].link_type
                 /\ back.links[i].description = n.links[i].description
                 /\ back.links[i].created_at = n.links[i].created_at
                 /\ back.links[i].source_id = n.id

\* a note with two links, one of them carrying another note's id as its
\* source, has been written to a document and read back
C30_Witness ==
    /\ result.tool = "document_to_note"
    /\ Len(result.note.links) = 2
    /\ \E i, j \in DOMAIN result.note.links :
          /\ result.note.links[i].source_id # result.note.id
          /\ result.note.links[j].source_id = result.note.id
    /\ result.document.links[1].link_type = "supports"

====
